---------------------------- MODULE Spec2Model ----------------------------
(***************************************************************************)
(* A model of the `variants` attribute macro of context_variants            *)
(* (src/src/lib.rs): the rule source is parsed (parse_mixed_args), group    *)
(* names are expanded (expand_field_groups), the fluent contexts are        *)
(* validated (validate_fluent_contexts), every field is processed           *)
(* (process_field), the variants are generated (expand_context_variants)    *)
(* and the entry point returns either the generated table or the recorded   *)
(* errors.                                                                  *)
(*                                                                          *)
(* Identifiers are strings.  An Option is its value or None.  A Vec is a    *)
(* sequence.  A syn::Error is its message.                                  *)
(***************************************************************************)
EXTENDS Naturals, Sequences, FiniteSets, TLC

None == "None"

(***************************************************************************)
(* Bounds of the rule sources that are explored.                            *)
(***************************************************************************)
\* calls in one chain
MaxCalls == 2
\* arguments of one call
MaxArgs == 2
\* context definitions in one rule source
MaxContexts == 2

(***************************************************************************)
(* The annotated struct: its named fields in declaration order.             *)
(***************************************************************************)
all_field_names == <<"user_id", "token", "name">>

Range(s) == {s[i] : i \in 1..Len(s)}

Contains(s, x) == \E i \in 1..Len(s) : s[i] = x

(***************************************************************************)
(* enum FieldRef { Field(Ident), AllFields { except: Vec<Ident> } }         *)
(***************************************************************************)
Field(name) == [t |-> "Field", name |-> name, except |-> <<>>]

AllFields(except) == [t |-> "AllFields", name |-> "", except |-> except]

\* mutant: the exception list is not consulted
matches_field_no_except(field_ref, field_name, all_struct_fields) ==
    IF field_ref.t = "Field"
    THEN field_ref.name = field_name
    ELSE Contains(all_struct_fields, field_name)

\* FieldRef::matches_field
matches_field(field_ref, field_name, all_struct_fields) ==
    IF field_ref.t = "Field"
    THEN field_ref.name = field_name
    ELSE Contains(all_struct_fields, field_name)
         /\ ~Contains(field_ref.except, field_name)

(***************************************************************************)
(* Syntax of the rule source (the attribute's token stream as syn parses    *)
(* it).  An argument expression of a call:                                  *)
(*   path    an identifier                         (syn::Expr::Path)        *)
(*   call    id(args)                              (syn::Expr::Call)        *)
(*   method  receiver.method(args), the receiver a call id() or a path id   *)
(*                                                 (syn::Expr::MethodCall)  *)
(*   cast    id as Type                            (syn::Expr::Cast)        *)
(***************************************************************************)
EPath(id) == [k |-> "path", id |-> id, recv |-> "-", method |-> "-", args |-> <<>>]

ECall(id, args) == [k |-> "call", id |-> id, recv |-> "-", method |-> "-", args |-> args]

EMethod(recv, id, method, args) == [k |-> "method", id |-> id, recv |-> recv, method |-> method, args |-> args]

ECast(id) == [k |-> "cast", id |-> id, recv |-> "-", method |-> "-", args |-> <<>>]

\* one call of a chain: method(args)
Call(method, args) == [method |-> method, args |-> args]

Ok(val) == [ok |-> TRUE, val |-> val, err |-> None]

Err(msg) == [ok |-> FALSE, val |-> None, err |-> msg]

(***************************************************************************)
(* FluentContextParser::parse_field_list, one argument (the loop body).     *)
(***************************************************************************)
parse_field_list_arg(arg) ==
    CASE arg.k = "path" -> Ok(Field(arg.id))
      [] arg.k = "call" ->
            IF arg.id = "all_fields"
            THEN Ok(AllFields(arg.args))
            ELSE Err("unsupported function call")
      [] arg.k = "method" ->
            IF arg.recv = "call" /\ arg.id = "all_fields" /\ arg.method = "except"
            THEN Ok(AllFields(arg.args))
            ELSE Err("unsupported method call")
      [] OTHER -> Err("expected field name or all_fields() function")

\* parse_field_list: fields.push(...) of one more argument, the first error
\* of the loop being the result
push_field(one, rest) ==
    IF ~one.ok THEN one
    ELSE IF ~rest.ok THEN rest
    ELSE Ok(<<one.val>> \o rest.val)

RECURSIVE parse_field_list(_)
\* FluentContextParser::parse_field_list
parse_field_list(args) ==
    IF args = <<>>
    THEN Ok(<<>>)
    ELSE push_field(parse_field_list_arg(Head(args)), parse_field_list(Tail(args)))

\* struct FluentContext, as parse_function_call and parse_method_chain create it
NewContext(context_name, span) ==
    [name |-> context_name,
     required_fields |-> <<>>,
     optional_fields |-> <<>>,
     excluded_fields |-> <<>>,
     default_behavior |-> None,
     end_span |-> span]

\* the argument of default(...), in parse_function_call and parse_method_chain
parse_default_arg(fields) ==
    IF Len(fields) # 1
    THEN Err("default() expects exactly one argument")
    ELSE IF fields[1].t # "Field"
    THEN Err("expected field name for default behavior")
    ELSE CASE fields[1].name = "required" -> Ok("Required")
           [] fields[1].name = "optional" -> Ok("Optional")
           [] fields[1].name = "exclude" -> Ok("Exclude")
           [] OTHER -> Err("expected 'required', 'optional', or 'exclude'")

\* context.default_behavior = Some(...), or the error of the argument
set_default_behavior(context, behavior) ==
    IF ~behavior.ok THEN behavior
    ELSE Ok([context EXCEPT !.default_behavior = behavior.val])

\* parse_function_call, the match on the function's name once its arguments
\* are parsed
function_call_match(context, func_name, fields) ==
    IF ~fields.ok
    THEN fields
    ELSE CASE func_name = "requires" ->
                Ok([context EXCEPT !.required_fields = fields.val])
           [] func_name = "optional" ->
                Ok([context EXCEPT !.optional_fields = fields.val])
           [] func_name = "excludes" ->
                Ok([context EXCEPT !.excluded_fields = fields.val])
           [] func_name = "default" ->
                set_default_behavior(context, parse_default_arg(fields.val))
           [] OTHER ->
                Err("expected 'requires', 'optional', 'excludes', or 'default'")

\* FluentContextParser::parse_function_call
parse_function_call(context_name, call, span) ==
    function_call_match(NewContext(context_name, span), call.method,
                        parse_field_list(call.args))

\* a match on the method's name that skips the names it does not know
method_call_match_any_name(context, method_name, fields) ==
    IF ~fields.ok
    THEN fields
    ELSE CASE method_name = "requires" ->
                Ok([context EXCEPT !.required_fields = @ \o fields.val])
           [] method_name = "optional" ->
                Ok([context EXCEPT !.optional_fields = @ \o fields.val])
           [] method_name = "excludes" ->
                Ok([context EXCEPT !.excluded_fields = @ \o fields.val])
           [] method_name = "default" ->
                set_default_behavior(context, parse_default_arg(fields.val))
           [] OTHER -> Ok(context)

\* parse_method_chain, the match on the method's name once its arguments are
\* parsed
method_call_match(context, method_name, fields) ==
    IF ~fields.ok
    THEN fields
    ELSE CASE method_name = "requires" ->
                Ok([context EXCEPT !.required_fields = @ \o fields.val])
           [] method_name = "optional" ->
                Ok([context EXCEPT !.optional_fields = @ \o fields.val])
           [] method_name = "excludes" ->
                Ok([context EXCEPT !.excluded_fields = @ \o fields.val])
           [] method_name = "default" ->
                set_default_behavior(context, parse_default_arg(fields.val))
           [] OTHER ->
                Err("expected 'requires', 'optional', 'excludes', or 'default'")

\* parse_method_chain, one method call of the chain applied to the context
parse_method_call(context, call) ==
    method_call_match(context, call.method, parse_field_list(call.args))

RECURSIVE parse_method_calls(_, _)
RECURSIVE next_method_call(_, _)
\* parse_method_chain, the loop over the method calls in source order
parse_method_calls(context, calls) ==
    IF calls = <<>>
    THEN Ok(context)
    ELSE next_method_call(parse_method_call(context, Head(calls)), Tail(calls))

\* the loop goes on with the next method call unless this one was an error
next_method_call(one, calls) ==
    IF ~one.ok THEN one ELSE parse_method_calls(one.val, calls)

\* a chain that starts from empty lists, whatever its first call holds
chain_on_base_drops_base(context, base_context, calls) ==
    IF ~base_context.ok
    THEN base_context
    ELSE parse_method_calls(context, calls)

\* parse_method_chain, after the base call: its three lists are taken over,
\* then the method calls are applied
chain_on_base(context, base_context, calls) ==
    IF ~base_context.ok
    THEN base_context
    ELSE parse_method_calls(
             [context EXCEPT !.required_fields = base_context.val.required_fields,
                             !.optional_fields = base_context.val.optional_fields,
                             !.excluded_fields = base_context.val.excluded_fields],
             calls)

\* FluentContextParser::parse_method_chain: the chain's first call is the
\* receiver, parsed by parse_function_call
parse_method_chain(context_name, chain, span) ==
    chain_on_base(NewContext(context_name, span),
                  parse_function_call(context_name, Head(chain), span),
                  Tail(chain))

\* FluentContextParser::parse_fluent_expr: a chain of one call is a
\* syn::Expr::Call, a longer one a syn::Expr::MethodCall, the empty chain
\* stands for any other expression.
parse_fluent_expr(context_name, chain, span) ==
    CASE Len(chain) = 1 -> parse_function_call(context_name, chain[1], span)
      [] Len(chain) > 1 -> parse_method_chain(context_name, chain, span)
      [] OTHER -> Err("expected function call like 'requires(field1, field2)'")


(***************************************************************************)
(* Items of the rule source (enum MixedArg) and directive values.           *)
(*   Path           a bare variant name                                     *)
(*   NameValue      name = value                                            *)
(*   FluentContext  name: chain                                             *)
(* A value is a string literal (str), an identifier (path), another         *)
(* literal (lit), one group definition (call) or a tuple of them (tuple).   *)
(***************************************************************************)
NoValue == [k |-> "-", s |-> "", groups |-> <<>>]

VStr(s) == [k |-> "str", s |-> s, groups |-> <<>>]

VPath(s) == [k |-> "path", s |-> s, groups |-> <<>>]

VLit(s) == [k |-> "lit", s |-> s, groups |-> <<>>]

VGroup(g) == [k |-> "call", s |-> "", groups |-> <<g>>]

VGroups(gs) == [k |-> "tuple", s |-> "", groups |-> gs]

\* an array expression of attributes: [serde(default), ...]
VArray(attrs) == [k |-> "array", s |-> "", groups |-> <<>>, attrs |-> attrs]

PathItem(name) == [k |-> "Path", name |-> name, chain |-> <<>>, value |-> NoValue]

NameValueItem(name, value) == [k |-> "NameValue", name |-> name, chain |-> <<>>, value |-> value]

FluentItem(name, chain) == [k |-> "FluentContext", name |-> name, chain |-> chain, value |-> NoValue]

(***************************************************************************)
(* HashMap<String, Vec<Ident>>: a set of entries with pairwise different    *)
(* keys.                                                                    *)
(***************************************************************************)
MapInsert(m, key, val) == {e \in m : e.key # key} \cup {[key |-> key, val |-> val]}

MapHas(m, key) == \E e \in m : e.key = key

MapGet(m, key) == (CHOOSE e \in m : e.key = key).val

\* parse_single_group: fields.push(ident) of one more member
push_member(ident, rest) ==
    IF ~rest.ok THEN rest ELSE Ok(<<ident>> \o rest.val)

RECURSIVE parse_group_fields(_)
\* parse_single_group, the loop over the members
parse_group_fields(args) ==
    IF args = <<>>
    THEN Ok(<<>>)
    ELSE IF Head(args).k # "path"
    THEN Err("expected field name")
    ELSE push_member(Head(args).id, parse_group_fields(Tail(args)))

\* parse_single_group, its result: (group name, members)
named_group(group_name, fields) ==
    IF ~fields.ok THEN fields
    ELSE Ok([key |-> group_name, val |-> fields.val])

\* parse_single_group
parse_single_group(call) == named_group(call.method, parse_group_fields(call.args))

RECURSIVE parse_group_elems(_, _)
RECURSIVE insert_group(_, _, _)
\* parse_groups_expression, the loop over the tuple's elements
parse_group_elems(elems, groups) ==
    IF elems = <<>>
    THEN Ok(groups)
    ELSE insert_group(parse_single_group(Head(elems)), Tail(elems), groups)

\* groups.insert(group_name, fields) unless the group was an error, then the
\* next element
insert_group(g, elems, groups) ==
    IF ~g.ok THEN g
    ELSE parse_group_elems(elems, MapInsert(groups, g.val.key, g.val.val))

\* parse_groups_expression
parse_groups_expression(value) ==
    IF value.k \in {"call", "tuple"}
    THEN parse_group_elems(value.groups, {})
    ELSE Err("expected group definition like 'auth(user_id, token)' or tuple of groups")

\* the value of default = ..., in parse_mixed_args
parse_global_default(value) ==
    IF value.k \notin {"str", "path"}
    THEN Err("expected string literal or identifier")
    ELSE CASE value.s = "required" -> Ok("Required")
           [] value.s = "optional" -> Ok("Optional")
           [] value.s = "exclude" -> Ok("Exclude")
           [] OTHER -> Err("expected 'required', 'optional', or 'exclude'")

\* struct VariantList before any item is processed
EmptyVariantList ==
    [variants |-> <<>>,
     prefix |-> None,
     suffix |-> None,
     default_required |-> <<>>,
     default_optional |-> <<>>,
     default_never |-> <<>>,
     default_optional_attrs |-> <<>>,
     default_required_attrs |-> <<>>,
     base_only_attrs |-> <<>>,
     variants_only_attrs |-> <<>>,
     fluent_contexts |-> <<>>,
     global_default |-> None,
     field_groups |-> {}]

\* cfg.global_default = Some(...), or the error of the value
set_global_default(cfg, behavior) ==
    IF ~behavior.ok THEN behavior ELSE Ok([cfg EXCEPT !.global_default = behavior.val])

\* cfg.field_groups = parse_groups_expression(...)?
set_field_groups(cfg, groups) ==
    IF ~groups.ok THEN groups ELSE Ok([cfg EXCEPT !.field_groups = groups.val])

\* cfg.variants.push(name); cfg.fluent_contexts.push(fluent_ctx), or the
\* error of the chain
push_fluent_context(cfg, name, fluent_ctx) ==
    IF ~fluent_ctx.ok THEN fluent_ctx
    ELSE Ok([cfg EXCEPT !.variants = Append(@, name),
                        !.fluent_contexts = Append(@, fluent_ctx.val)])

\* parse_mixed_args, one item (the body of the loop over the parsed items);
\* span is the item's position in the rule source
parse_mixed_arg(cfg, item, span) ==
    IF item.k = "Path"
    THEN Ok([cfg EXCEPT !.variants = Append(@, item.name)])
    ELSE IF item.k = "NameValue"
    THEN CASE item.name = "prefix" ->
                IF item.value.k # "str" THEN Err("expected string literal")
                ELSE Ok([cfg EXCEPT !.prefix = item.value.s])
           [] item.name = "suffix" ->
                IF item.value.k # "str" THEN Err("expected string literal")
                ELSE Ok([cfg EXCEPT !.suffix = item.value.s])
           [] item.name = "default" ->
                set_global_default(cfg, parse_global_default(item.value))
           [] item.name = "groups" ->
                set_field_groups(cfg, parse_groups_expression(item.value))
           [] OTHER -> Err("unknown parameter")
    ELSE push_fluent_context(cfg, item.name,
                             parse_fluent_expr(item.name, item.chain, span))

RECURSIVE parse_mixed_items(_, _, _)
RECURSIVE next_mixed_item(_, _, _)
\* parse_mixed_args, the loop over the parsed items: the first error returns
parse_mixed_items(cfg, items, span) ==
    IF span > Len(items)
    THEN Ok(cfg)
    ELSE next_mixed_item(parse_mixed_arg(cfg, items[span], span), items, span)

\* the loop goes on with the next item unless this one was an error
next_mixed_item(one, items, span) ==
    IF ~one.ok THEN one ELSE parse_mixed_items(one.val, items, span + 1)

\* parse_mixed_args, after the loop
no_variants_check(cfg) ==
    IF ~cfg.ok THEN cfg
    ELSE IF cfg.val.variants = <<>>
    THEN Err("no variants specified")
    ELSE cfg

\* parse_mixed_args
parse_mixed_args(items) == no_variants_check(parse_mixed_items(EmptyVariantList, items, 1))


\* an expansion that keeps only the first member of a group
expand_field_ref_first_member(field_ref, field_groups) ==
    IF field_ref.t = "Field" /\ MapHas(field_groups, field_ref.name)
    THEN <<Field(MapGet(field_groups, field_ref.name)[1])>>
    ELSE <<field_ref>>

\* the members of the group in the reverse of the declared order
expand_field_ref_reversed(field_ref, field_groups) ==
    IF field_ref.t = "Field" /\ MapHas(field_groups, field_ref.name)
    THEN [i \in 1..Len(MapGet(field_groups, field_ref.name)) |->
             Field(MapGet(field_groups, field_ref.name)
                       [Len(MapGet(field_groups, field_ref.name)) + 1 - i])]
    ELSE <<field_ref>>

\* expand_field_groups, one reference: the members of the group it names,
\* else the reference as it is
expand_field_ref(field_ref, field_groups) ==
    IF field_ref.t = "Field" /\ MapHas(field_groups, field_ref.name)
    THEN [i \in 1..Len(MapGet(field_groups, field_ref.name)) |->
             Field(MapGet(field_groups, field_ref.name)[i])]
    ELSE <<field_ref>>

RECURSIVE expand_field_refs(_, _)
\* expand_field_groups, the loop over one list: a Field naming a group is
\* replaced by the group's members, every other reference is kept
expand_field_refs(field_refs, field_groups) ==
    IF field_refs = <<>>
    THEN <<>>
    ELSE expand_field_ref(Head(field_refs), field_groups)
         \o expand_field_refs(Tail(field_refs), field_groups)

\* expand_field_groups, one fluent context
expand_context_groups(fluent_ctx, field_groups) ==
    [fluent_ctx EXCEPT
        !.required_fields = expand_field_refs(@, field_groups),
        !.optional_fields = expand_field_refs(@, field_groups),
        !.excluded_fields = expand_field_refs(@, field_groups)]

\* expand_field_groups: it returns Ok(()) on every path
expand_field_groups(cfg) ==
    [cfg EXCEPT !.fluent_contexts =
        [i \in 1..Len(@) |-> expand_context_groups(@[i], cfg.field_groups)]]

(***************************************************************************)
(* validate_fluent_contexts                                                 *)
(***************************************************************************)
\* the number of references of a list that match the field
MatchCount(field_refs, field_name) ==
    Cardinality({i \in 1..Len(field_refs) :
                    matches_field(field_refs[i], field_name, all_field_names)})

\* one label per matching reference
Labels(field_refs, field_name, label) ==
    [i \in 1..MatchCount(field_refs, field_name) |-> label]

\* field_mentions of one context: the entry of a field; a field without an
\* entry has no mentions
field_mentions(fluent_ctx, field_name) ==
    Labels(fluent_ctx.required_fields, field_name, "required")
    \o Labels(fluent_ctx.optional_fields, field_name, "optional")
    \o Labels(fluent_ctx.excluded_fields, field_name, "excluded")

\* the keys of field_mentions whose entry has more than one mention
conflict_fields(fluent_ctx) ==
    {f \in Range(all_field_names) : Len(field_mentions(fluent_ctx, f)) > 1}

\* emit_error!(end_span, "field '{}' mentioned multiple times: {}")
ConflictError(fluent_ctx, field_name) ==
    [kind |-> "conflict",
     span |-> fluent_ctx.end_span,
     field |-> field_name,
     mentions |-> field_mentions(fluent_ctx, field_name),
     fields |-> <<>>]

\* has_default
has_default(fluent_ctx, cfg) ==
    fluent_ctx.default_behavior # None \/ cfg.global_default # None

\* unmentioned_fields, in declaration order
unmentioned_fields(fluent_ctx) ==
    SelectSeq(all_field_names, LAMBDA f : field_mentions(fluent_ctx, f) = <<>>)

\* emit_error!(end_span, "missing fields: {}")
MissingError(fluent_ctx) ==
    [kind |-> "missing",
     span |-> fluent_ctx.end_span,
     field |-> "",
     mentions |-> <<>>,
     fields |-> unmentioned_fields(fluent_ctx)]

\* the coverage check of one context: the errors it emits
coverage_errors(fluent_ctx, cfg) ==
    IF ~has_default(fluent_ctx, cfg) /\ unmentioned_fields(fluent_ctx) # <<>>
    THEN <<MissingError(fluent_ctx)>>
    ELSE <<>>

\* the orders in which a HashMap may yield the keys S
IterationOrders(S) ==
    {order \in [1..Cardinality(S) -> S] : Range(order) = S}

\* the conflict check of one context, field_mentions iterated in this order
conflict_errors(fluent_ctx, order) ==
    [i \in 1..Len(order) |-> ConflictError(fluent_ctx, order[i])]

\* a validator that leaves a context at its first finding: no coverage check
\* once a conflict is recorded
context_errors_stop_at_first(fluent_ctx, cfg, order) ==
    IF conflict_errors(fluent_ctx, order) # <<>>
    THEN conflict_errors(fluent_ctx, order)
    ELSE coverage_errors(fluent_ctx, cfg)

\* a validator without the conflict check
context_errors_coverage_only(fluent_ctx, cfg, order) == coverage_errors(fluent_ctx, cfg)

\* validate_fluent_contexts, the body of the loop for one context: the
\* conflict check, then the coverage check, none stopping the other
context_errors(fluent_ctx, cfg, order) ==
    conflict_errors(fluent_ctx, order) \o coverage_errors(fluent_ctx, cfg)

(***************************************************************************)
(* process_field                                                            *)
(***************************************************************************)
\* syn::Type: a path type with its segments and the tokens of the generic
\* arguments of its last segment, or a type of another kind with its tokens
TyPath(segments, generic_args) ==
    [is_path |-> TRUE, segments |-> segments, tokens |-> generic_args]

TyOther(tokens) == [is_path |-> FALSE, segments |-> <<>>, tokens |-> tokens]

\* the tokens of a type
TyTokens(ty) ==
    IF ~ty.is_path THEN ty.tokens
    ELSE IF ty.tokens = <<>> THEN ty.segments
    ELSE ty.segments \o <<"<">> \o ty.tokens \o <<">">>

\* is_option_type: a path type whose last segment is Option
is_option_type(ty) ==
    ty.is_path /\ ty.segments # <<>> /\ ty.segments[Len(ty.segments)] = "Option"

\* quote! { ::core::option::Option<#ty> }
option_of(ty) == TyPath(<<"core", "option", "Option">>, TyTokens(ty))

\* syn::Attribute: the path of its meta and, for a list, the metas in it
Attr(path, nested) == [path |-> path, nested |-> nested]

\* the attributes of a field with one of the given names, in source order
attrs_named(attrs, names) == SelectSeq(attrs, LAMBDA a : a.path \in names)

\* parse_ctx_attr_attribute: the inner attribute of each
inner_attrs(attrs) == [i \in 1..Len(attrs) |-> attrs[i].nested[1]]

RECURSIVE name_list(_)
\* parse_attribute_name_list of each attribute, one after the other
name_list(attrs) ==
    IF attrs = <<>> THEN <<>>
    ELSE [i \in 1..Len(Head(attrs).nested) |-> Head(attrs).nested[i].path]
         \o name_list(Tail(attrs))

\* the names of the attributes process_field takes for the macro's own
MacroFieldAttrs ==
    {"ctx_required", "ctx_optional", "ctx_never", "ctx_always_required",
     "ctx_always_optional", "ctx_no_default_attrs", "ctx_base_only_attrs",
     "ctx_optional_attr", "ctx_required_attr", "when_optional", "when_required"}

\* the names of a sequence of contexts
NamesOf(fluent_contexts) ==
    [i \in 1..Len(fluent_contexts) |-> fluent_contexts[i].name]

\* any reference of the list matches the field
any_match(field_refs, ident) ==
    \E i \in 1..Len(field_refs) : matches_field(field_refs[i], ident, all_field_names)

\* field_explicitly_mentioned
field_explicitly_mentioned(fluent_ctx, ident) ==
    \/ any_match(fluent_ctx.required_fields, ident)
    \/ any_match(fluent_ctx.optional_fields, ident)
    \/ any_match(fluent_ctx.excluded_fields, ident)

\* the default of the first context of the rule source for every context
default_behavior_of_first_context(fluent_ctx, cfg) ==
    IF cfg.fluent_contexts[1].default_behavior # None
    THEN cfg.fluent_contexts[1].default_behavior
    ELSE IF cfg.global_default # None THEN cfg.global_default
    ELSE "Optional"

\* default_behavior: the context's, else the global one, else Optional
default_behavior(fluent_ctx, cfg) ==
    IF fluent_ctx.default_behavior # None THEN fluent_ctx.default_behavior
    ELSE IF cfg.global_default # None THEN cfg.global_default
    ELSE "Optional"

\* the names the second loop pushes for one default behaviour
DefaultedTo(cfg, ident, behavior) ==
    NamesOf(SelectSeq(cfg.fluent_contexts,
                      LAMBDA c : ~field_explicitly_mentioned(c, ident)
                                 /\ default_behavior(c, cfg) = behavior))

\* process_field: field is the struct's field with its own attributes
process_field(field, cfg) ==
    [ident |-> field.ident,
     required_in |->
        field.ctx_required
        \o NamesOf(SelectSeq(cfg.fluent_contexts,
                             LAMBDA c : any_match(c.required_fields, field.ident)))
        \o DefaultedTo(cfg, field.ident, "Required"),
     optional_in |->
        field.ctx_optional
        \o NamesOf(SelectSeq(cfg.fluent_contexts,
                             LAMBDA c : any_match(c.optional_fields, field.ident)))
        \o DefaultedTo(cfg, field.ident, "Optional"),
     never_in |->
        field.ctx_never
        \o NamesOf(SelectSeq(cfg.fluent_contexts,
                             LAMBDA c : any_match(c.excluded_fields, field.ident)))
        \o DefaultedTo(cfg, field.ident, "Exclude"),
     always_required |-> field.ctx_always_required,
     always_optional |-> field.ctx_always_optional,
     ty |-> field.ty,
     is_option |-> is_option_type(field.ty),
     attrs |-> SelectSeq(field.attrs, LAMBDA a : a.path \notin MacroFieldAttrs),
     optional_attrs |-> inner_attrs(attrs_named(field.attrs, {"ctx_optional_attr", "when_optional"})),
     required_attrs |-> inner_attrs(attrs_named(field.attrs, {"ctx_required_attr", "when_required"})),
     no_default_attrs |-> attrs_named(field.attrs, {"ctx_no_default_attrs"}) # <<>>,
     base_only_field_attrs |-> name_list(attrs_named(field.attrs, {"ctx_base_only_attrs"}))]

\* the names of a list that are no variant
UnknownIn(names, cfg) ==
    SelectSeq(names, LAMBDA n : ~Contains(cfg.variants, n))

\* expand_context_variants, the checks of the variant names: the first
\* unknown name is the error
unknown_variant(specs, cfg) ==
    LET per_field == [i \in 1..Len(specs) |->
                        UnknownIn(specs[i].required_in, cfg)
                        \o UnknownIn(specs[i].optional_in, cfg)
                        \o UnknownIn(specs[i].never_in, cfg)]
        bad_fields == {i \in 1..Len(specs) : per_field[i] # <<>>}
        bad_defaults == UnknownIn(cfg.default_required, cfg)
                        \o UnknownIn(cfg.default_optional, cfg)
                        \o UnknownIn(cfg.default_never, cfg)
    IN  IF bad_fields # {}
        THEN per_field[CHOOSE i \in bad_fields : \A j \in bad_fields : i <= j][1]
        ELSE IF bad_defaults # <<>> THEN bad_defaults[1]
        ELSE None

(***************************************************************************)
(* expand_context_variants, the generation of one variant                   *)
(***************************************************************************)
\* the field is left out of the variant
excluded_here(fs, variant, cfg) ==
    \/ Contains(fs.never_in, variant)
    \/ /\ Contains(cfg.default_never, variant)
       /\ ~Contains(fs.required_in, variant)
       /\ ~Contains(fs.optional_in, variant)

\* required_here
required_here(fs, variant, cfg) ==
    IF fs.always_optional THEN FALSE
    ELSE IF fs.always_required THEN TRUE
    ELSE IF Contains(fs.optional_in, variant) THEN FALSE
    ELSE IF Contains(fs.required_in, variant) THEN TRUE
    ELSE IF Contains(cfg.default_required, variant) THEN TRUE
    ELSE IF Contains(cfg.default_optional, variant) THEN FALSE
    ELSE FALSE

\* a wrapping that does not look at the declared type
ty_tokens_always_wraps(fs, required) ==
    IF required THEN fs.ty ELSE option_of(fs.ty)

\* ty_tokens: the type of the field in a variant
ty_tokens(fs, required) ==
    IF required THEN fs.ty
    ELSE IF fs.is_option THEN fs.ty
    ELSE option_of(fs.ty)

\* default attributes that are added whether the field opts out or not
conditional_attrs_ignores_opt_out(fs, required, cfg) ==
    (IF required THEN fs.required_attrs ELSE fs.optional_attrs)
    \o (IF required THEN cfg.default_required_attrs ELSE cfg.default_optional_attrs)

\* conditional_attrs: the field's attributes for its classification, then
\* the default attributes for it unless the field opts out
conditional_attrs(fs, required, cfg) ==
    (IF required THEN fs.required_attrs ELSE fs.optional_attrs)
    \o (IF fs.no_default_attrs THEN <<>>
        ELSE IF required THEN cfg.default_required_attrs
        ELSE cfg.default_optional_attrs)

\* attr_matches_pattern, for an attribute whose path is one identifier
attr_matches_pattern(attr, pattern) == attr.path = pattern

\* should_exclude_field_attr_from_variants
should_exclude_field_attr_from_variants(attr, base_only_attrs) ==
    \E i \in 1..Len(base_only_attrs) : attr_matches_pattern(attr, base_only_attrs[i])

\* variant_field_attrs: the field's other attributes but the base-only ones
variant_field_attrs(fs) ==
    SelectSeq(fs.attrs,
              LAMBDA a : ~should_exclude_field_attr_from_variants(a, fs.base_only_field_attrs))

\* one field of a variant
var_field(fs, variant, cfg) ==
    [ident |-> fs.ident,
     required_here |-> required_here(fs, variant, cfg),
     ty |-> ty_tokens(fs, required_here(fs, variant, cfg)),
     attrs |-> variant_field_attrs(fs),
     conditional_attrs |-> conditional_attrs(fs, required_here(fs, variant, cfg), cfg)]

\* a variant that keeps every field
kept_fields_all(specs, variant, cfg) == specs

\* the fields of a variant: those that are not excluded, in declaration order
kept_fields(specs, variant, cfg) ==
    SelectSeq(specs, LAMBDA fs : ~excluded_here(fs, variant, cfg))

\* a variant that lists every field it keeps twice
var_fields_listed_twice(specs, variant, cfg) ==
    [i \in 1..(2 * Len(kept_fields(specs, variant, cfg))) |->
        var_field(kept_fields(specs, variant, cfg)[(i + 1) \div 2], variant, cfg)]

\* var_fields: the fields of one variant, in declaration order
var_fields(specs, variant, cfg) ==
    [i \in 1..Len(kept_fields(specs, variant, cfg)) |->
        var_field(kept_fields(specs, variant, cfg)[i], variant, cfg)]

\* the names of the struct's attributes the macro takes for its own
MacroStructAttrs ==
    {"context_variants", "ctx_default_required", "ctx_default_optional",
     "ctx_default_never", "ctx_default_optional_attrs", "ctx_default_required_attrs",
     "ctx_base_only", "ctx_variants_only"}

\* struct_attrs: the attributes of the struct that are not the macro's own
struct_attrs(struct) == SelectSeq(struct.attrs, LAMBDA a : a.path \notin MacroStructAttrs)

\* should_exclude_from_variants
should_exclude_from_variants(attr, cfg) ==
    \E i \in 1..Len(cfg.base_only_attrs) : attr_matches_pattern(attr, cfg.base_only_attrs[i])

\* the attributes of a variant struct: the derives, then the others, each
\* without the base-only ones
variant_struct_attrs(attrs, cfg) ==
    SelectSeq(attrs, LAMBDA a : a.path = "derive" /\ ~should_exclude_from_variants(a, cfg))
    \o SelectSeq(attrs, LAMBDA a : a.path # "derive" /\ ~should_exclude_from_variants(a, cfg))

\* orig_struct: the struct with its other attributes, every field with its
\* other attributes and its declared type
original_struct(specs, attrs) ==
    [attrs |-> attrs,
     fields |-> [i \in 1..Len(specs) |->
                    [ident |-> specs[i].ident, ty |-> specs[i].ty, attrs |-> specs[i].attrs]]]

\* the generated variant structs, in the order of cfg.variants
generate_variants(specs, cfg, attrs) ==
    [i \in 1..Len(cfg.variants) |->
        [variant |-> cfg.variants[i],
         prefix |-> IF cfg.prefix = None THEN "" ELSE cfg.prefix,
         suffix |-> IF cfg.suffix = None THEN "" ELSE cfg.suffix,
         attrs |-> variant_struct_attrs(attrs, cfg),
         fields |-> var_fields(specs, cfg.variants[i], cfg)]]


(***************************************************************************)
(* The rule sources that are explored.                                      *)
(***************************************************************************)
SeqsUpTo(S, n) == UNION {[1..m -> S] : m \in 0..n}

NonEmptySeqsUpTo(S, n) == UNION {[1..m -> S] : m \in 1..n}

\* the names of the contexts, by position in the rule source
ContextNames == <<"Create", "Update", "Read", "Delete", "List", "Patch">>

\* references: fields, the group auth, the undefined name ghost, wildcards in
\* both notations, a group with exceptions, a type override
RefExprs ==
    {EPath("user_id"), EPath("token"), EPath("auth"), EPath("ghost"),
     ECall("all_fields", <<>>),
     ECall("all_fields", <<"token">>),
     EMethod("call", "all_fields", "except", <<"token">>),
     EMethod("call", "all_fields", "except", <<"token", "ghost">>),
     EMethod("path", "auth", "except", <<"token">>),
     ECast("user_id")}

ListMethods == {"requires", "optional", "excludes"}

\* default(...) calls: the three behaviours, an unknown one, no argument
DefaultCalls ==
    {Call("default", <<EPath(n)>>) : n \in {"required", "optional", "exclude", "ghost"}}
    \cup {Call("default", <<>>)}

\* the references of the calls of a chain
ChainRefs ==
    {EPath("user_id"), EPath("token"), EPath("ghost"),
     ECall("all_fields", <<>>),
     ECall("all_fields", <<"token">>),
     EMethod("call", "all_fields", "except", <<"token", "ghost">>)}

\* calls of at most one argument, and a call of an unknown name
UnaryCalls ==
    {Call(m, a) : m \in ListMethods, a \in SeqsUpTo(ChainRefs, 1)}
    \cup DefaultCalls
    \cup {Call("require", <<EPath("user_id")>>)}

\* one context, a chain of up to MaxCalls calls
ChainSources ==
    {<<FluentItem(ContextNames[1], chain)>> : chain \in SeqsUpTo(UnaryCalls, MaxCalls)}

\* one context, one call of up to MaxArgs arguments, with and without a
\* default(exclude) after it
ArgsSources ==
    {<<FluentItem(ContextNames[1], <<Call(m, a)>> \o tail)>> :
        m \in ListMethods, a \in SeqsUpTo(RefExprs, MaxArgs),
        tail \in {<<>>, <<Call("default", <<EPath("exclude")>>)>>}}

AuthGroup == Call("auth", <<EPath("user_id"), EPath("token")>>)

\* the groups directive: one group, a tuple of groups, groups with a wildcard
\* for a member, a value that is no group
GroupValues ==
    {VGroup(AuthGroup),
     VGroups(<<AuthGroup, Call("contact", <<EPath("name")>>)>>),
     VGroup(Call("auth", <<ECall("all_fields", <<>>)>>)),
     VGroup(Call("auth", <<EMethod("call", "all_fields", "except", <<"token">>)>>)),
     VStr("auth")}

GroupCalls ==
    {Call(m, <<a>>) : m \in ListMethods,
                      a \in {EPath("auth"), EPath("name"), EPath("ghost"),
                              EMethod("path", "auth", "except", <<"token">>)}}
    \cup {Call("default", <<EPath("exclude")>>)}

\* a groups directive and one context whose chain names groups and fields
GroupSources ==
    {<<NameValueItem("groups", g), FluentItem(ContextNames[1], chain)>> :
        g \in GroupValues, chain \in NonEmptySeqsUpTo(GroupCalls, MaxCalls)}

GlobalCalls ==
    {Call(m, <<a>>) : m \in ListMethods,
                      a \in {EPath("user_id"), EMethod("call", "all_fields", "except", <<"token">>)}}
    \cup {Call("default", <<EPath(n)>>) : n \in {"required", "exclude"}}

\* a global default and one context
GlobalSources ==
    {<<FluentItem(ContextNames[1], chain), NameValueItem("default", VPath(d))>> :
        chain \in NonEmptySeqsUpTo(GlobalCalls, MaxCalls),
        d \in {"required", "optional", "exclude"}}

Directives ==
    {NameValueItem("prefix", VStr("Api")), NameValueItem("prefix", VLit("5")),
     NameValueItem("suffix", VStr("Form")), NameValueItem("suffix", VPath("Form")),
     NameValueItem("default", VStr("required")), NameValueItem("default", VPath("exclude")),
     NameValueItem("default", VPath("never")), NameValueItem("default", VLit("1")),
     NameValueItem("build_base", VLit("true")),
     NameValueItem("optional_base", VLit("false")),
     NameValueItem("optional_attrs", VArray(<<"serde(default)">>)),
     NameValueItem("required_attrs", VArray(<<"validate(required)">>)),
     NameValueItem("rename_all", VStr("camelCase")),
     NameValueItem("groups", VGroup(AuthGroup))}

\* the chains of the contexts of a rule source of several contexts
SimpleChains ==
    {<<Call("requires", <<ECall("all_fields", <<>>)>>)>>,
     <<Call("requires", <<EPath("user_id")>>)>>,
     <<Call("requires", <<EPath("user_id")>>), Call("optional", <<EPath("user_id")>>)>>,
     <<Call("optional", <<EPath("token")>>), Call("default", <<EPath("exclude")>>)>>,
     <<Call("excludes", <<EPath("token")>>), Call("requires", <<ECall("all_fields", <<>>)>>)>>,
     <<Call("require", <<>>)>>}

SimpleItems(i) ==
    {PathItem(ContextNames[i])}
    \cup {FluentItem(ContextNames[i], chain) : chain \in SimpleChains}

\* up to MaxContexts contexts of pairwise different names, each a bare name
\* or a chain
ContextSources ==
    UNION {{items \in [1..n -> UNION {SimpleItems(i) : i \in 1..n}] :
                \A i \in 1..n : items[i] \in SimpleItems(i)} : n \in 0..MaxContexts}

\* one directive before or after one context
DirectiveSources ==
    UNION {{<<d, c>>, <<c, d>>} : d \in Directives, c \in SimpleItems(1)}

\* Update: requires(user_id).optional(all_fields().except(token)).default(exclude)
WildcardOverRequired ==
    <<FluentItem("Update",
                 <<Call("requires", <<EPath("user_id")>>),
                   Call("optional", <<EMethod("call", "all_fields", "except", <<"token">>)>>),
                   Call("default", <<EPath("exclude")>>)>>)>>

\* the same with the required field among the exceptions:
\* Update: requires(user_id).optional(all_fields().except(token, user_id)).default(exclude)
WildcardBesideRequired ==
    <<FluentItem("Update",
                 <<Call("requires", <<EPath("user_id")>>),
                   Call("optional",
                        <<EMethod("call", "all_fields", "except", <<"token", "user_id">>)>>),
                   Call("default", <<EPath("exclude")>>)>>)>>

\* rule sources of the test suite, with the fields of this struct
ScenarioSources == {WildcardOverRequired, WildcardBesideRequired}

\* two groups, the first with the name of the second for a member
NestedGroups ==
    VGroups(<<Call("auth", <<EPath("user_id"), EPath("contact")>>),
              Call("contact", <<EPath("name")>>)>>)

\* a group, a field and a wildcard
MixedRefs ==
    {EPath("auth"), EPath("name"), EMethod("call", "all_fields", "except", <<"token">>)}

\* the nested groups and one context whose list mixes groups, fields and
\* wildcards, with and without a default(exclude) after it
GroupFrameSources ==
    {<<NameValueItem("groups", NestedGroups),
       FluentItem(ContextNames[1], <<Call(m, a)>> \o tail)>> :
        m \in ListMethods, a \in SeqsUpTo(MixedRefs, MaxArgs + 1),
        tail \in {<<>>, <<Call("default", <<EPath("exclude")>>)>>}}

Sources ==
    ChainSources \cup ArgsSources \cup GroupSources \cup GlobalSources
    \cup ContextSources \cup DirectiveSources \cup ScenarioSources
    \cup GroupFrameSources

(***************************************************************************)
(* The annotated struct (DeriveInput): the fields with their own            *)
(* attributes and the struct's attributes.                                  *)
(***************************************************************************)
\* the declared types: user_id: u64, token: Option<String>, name: String
DeclaredType(ident) ==
    CASE ident = "user_id" -> TyPath(<<"u64">>, <<>>)
      [] ident = "token" -> TyPath(<<"Option">>, <<"String">>)
      [] OTHER -> TyPath(<<"String">>, <<>>)

PlainField(ident) ==
    [ident |-> ident,
     ctx_required |-> <<>>,
     ctx_optional |-> <<>>,
     ctx_never |-> <<>>,
     ctx_always_required |-> FALSE,
     ctx_always_optional |-> FALSE,
     ty |-> DeclaredType(ident),
     attrs |-> <<>>]

PlainStruct ==
    [fields |-> [i \in 1..Len(all_field_names) |-> PlainField(all_field_names[i])],
     ctx_default_required |-> <<>>,
     ctx_default_optional |-> <<>>,
     ctx_default_never |-> <<>>,
     ctx_default_optional_attrs |-> <<>>,
     ctx_default_required_attrs |-> <<>>,
     attrs |-> <<>>]

\* the most attributes on the annotated field
MaxAttrs == 2

\* the types of the annotated field: u64, Option<String>,
\* std::option::Option<u64>, Vec<String> and the reference type &str
FieldTypes ==
    {TyPath(<<"u64">>, <<>>),
     TyPath(<<"Option">>, <<"String">>),
     TyPath(<<"std", "option", "Option">>, <<"u64">>),
     TyPath(<<"Vec">>, <<"String">>),
     TyOther(<<"&", "str">>)}

\* the attributes of the annotated field: #[when_optional(serde(default))],
\* #[when_required(validate(required))], #[ctx_optional_attr(doc(hidden))],
\* #[ctx_required_attr(doc(inline))], #[ctx_no_default_attrs],
\* #[ctx_base_only_attrs(serde)], #[when_base(serde(rename))] and
\* #[serde(flatten)]
FieldAttrs ==
    {Attr("when_optional", <<Attr("serde", <<Attr("default", <<>>)>>)>>),
     Attr("when_required", <<Attr("validate", <<Attr("required", <<>>)>>)>>),
     Attr("ctx_optional_attr", <<Attr("doc", <<Attr("hidden", <<>>)>>)>>),
     Attr("ctx_required_attr", <<Attr("doc", <<Attr("inline", <<>>)>>)>>),
     Attr("ctx_no_default_attrs", <<>>),
     Attr("ctx_base_only_attrs", <<Attr("serde", <<>>)>>),
     Attr("when_base", <<Attr("serde", <<Attr("rename", <<>>)>>)>>),
     Attr("serde", <<Attr("flatten", <<>>)>>)}

\* #[ctx_default_optional_attrs(...)] of the struct: none or
\* serde(skip_serializing_if)
DefaultOptionalAttrs == {<<>>, <<Attr("serde", <<Attr("skip_serializing_if", <<>>)>>)>>}

\* #[ctx_default_required_attrs(...)] of the struct: none or validate(length)
DefaultRequiredAttrs == {<<>>, <<Attr("validate", <<Attr("length", <<>>)>>)>>}

\* a field with a type and attributes of its own
AnnotatedField(ident, ty, attrs) == [PlainField(ident) EXCEPT !.ty = ty, !.attrs = attrs]

\* the struct whose first field is annotated, with default attributes
AnnotatedStruct(ty, attrs, optional_attrs, required_attrs) ==
    [PlainStruct EXCEPT !.fields[1] = AnnotatedField(all_field_names[1], ty, attrs),
                        !.ctx_default_optional_attrs = optional_attrs,
                        !.ctx_default_required_attrs = required_attrs]

AnnotatedStructs ==
    {AnnotatedStruct(ty, attrs, optional_attrs, required_attrs) :
        ty \in FieldTypes, attrs \in SeqsUpTo(FieldAttrs, MaxAttrs),
        optional_attrs \in DefaultOptionalAttrs, required_attrs \in DefaultRequiredAttrs}

\* the rule sources the annotated structs are expanded with:
\* Create: requires(user_id).default(optional), Update: optional(user_id).default(required);
\* Create: excludes(user_id).default(required), Update;
\* Create: optional(all_fields()), Update: requires(all_fields())
StructSources ==
    {<<FluentItem("Create", <<Call("requires", <<EPath("user_id")>>),
                              Call("default", <<EPath("optional")>>)>>),
       FluentItem("Update", <<Call("optional", <<EPath("user_id")>>),
                              Call("default", <<EPath("required")>>)>>)>>,
     <<FluentItem("Create", <<Call("excludes", <<EPath("user_id")>>),
                              Call("default", <<EPath("required")>>)>>),
       PathItem("Update")>>,
     <<FluentItem("Create", <<Call("optional", <<ECall("all_fields", <<>>)>>)>>),
       FluentItem("Update", <<Call("requires", <<ECall("all_fields", <<>>)>>)>>)>>}

(***************************************************************************)
(* The session of one macro invocation.                                     *)
(***************************************************************************)
\* the attributes of the decorated struct: #[derive(Debug)],
\* #[serde(deny_unknown_fields)], #[doc(hidden)], #[ctx_base_only(serde)] and
\* #[ctx_variants_only(doc)]
StructAttrs ==
    {Attr("derive", <<Attr("Debug", <<>>)>>),
     Attr("serde", <<Attr("deny_unknown_fields", <<>>)>>),
     Attr("doc", <<Attr("hidden", <<>>)>>),
     Attr("ctx_base_only", <<Attr("serde", <<>>)>>),
     Attr("ctx_variants_only", <<Attr("doc", <<>>)>>)}

\* the struct with attributes of its own
DecoratedStructs ==
    {[PlainStruct EXCEPT !.attrs = attrs] : attrs \in SeqsUpTo(StructAttrs, MaxAttrs)}

\* the variant lists of #[ctx_required(...)] and #[ctx_default_required(...)]:
\* none, the variant Create, a name that is no variant
RequiredLists == {<<>>, <<"Create">>, <<"Ghost">>}

\* the variant lists of the other attributes: none or the variant Create
VariantLists == {<<>>, <<"Create">>}

\* a field with the attributes #[ctx_required(...)], #[ctx_optional(...)],
\* #[ctx_never(...)], #[ctx_always_required] and #[ctx_always_optional]
ClassifiedField(ident, required, optional, never, always_required, always_optional) ==
    [PlainField(ident) EXCEPT !.ctx_required = required,
                              !.ctx_optional = optional,
                              !.ctx_never = never,
                              !.ctx_always_required = always_required,
                              !.ctx_always_optional = always_optional]

\* the structs whose first field is classified by attributes
ClassifiedFieldStructs ==
    {[PlainStruct EXCEPT !.fields[1] =
          ClassifiedField(all_field_names[1], required, optional, never,
                          always_required, always_optional)] :
        required \in RequiredLists, optional \in VariantLists, never \in VariantLists,
        always_required \in BOOLEAN, always_optional \in BOOLEAN}

\* the same with the defaults #[ctx_default_required(...)],
\* #[ctx_default_optional(...)] and #[ctx_default_never(...)] of the struct
ClassifiedStructs ==
    {[struct EXCEPT !.ctx_default_required = default_required,
                    !.ctx_default_optional = default_optional,
                    !.ctx_default_never = default_never] :
        struct \in ClassifiedFieldStructs,
        default_required \in RequiredLists, default_optional \in VariantLists,
        default_never \in VariantLists}

\* the rule sources these structs are expanded with: Create, Update and
\* Create: requires(name).default(optional), Update
AttributeSources ==
    {<<PathItem("Create"), PathItem("Update")>>,
     <<FluentItem("Create", <<Call("requires", <<EPath("name")>>),
                              Call("default", <<EPath("optional")>>)>>),
       PathItem("Update")>>}

VARIABLES
    args,              \* the rule source
    input,             \* the annotated struct
    pc,                \* the step of `variants` that runs next
    variants_cfg,      \* the VariantList, None before it is parsed
    error,             \* the syn::Error returned, None if none
    emitted,           \* the errors recorded by emit_error!, in order
    ctx_index,         \* validate_fluent_contexts: the contexts validated so far
    processed_fields,  \* the FieldSpec of every field, <<>> before process_field
    variant_tokens,    \* the generated variants, <<>> before they are generated
    orig_struct,       \* the tokens of the original struct, None before they are built
    output             \* what the macro returns, None while it runs

vars == <<args, input, pc, variants_cfg, error, emitted, ctx_index,
          processed_fields, variant_tokens, orig_struct, output>>

Init ==
    /\ args \in Sources
    /\ input = PlainStruct
    /\ pc = "parse_mixed_args"
    /\ variants_cfg = None
    /\ error = None
    /\ emitted = <<>>
    /\ ctx_index = 0
    /\ processed_fields = <<>>
    /\ variant_tokens = <<>>
    /\ orig_struct = None
    /\ output = None

\* variants: parse_mixed_args(args); an error returns at once
ParseMixedArgs ==
    /\ pc = "parse_mixed_args"
    /\ LET cfg == parse_mixed_args(args)
       IN  IF cfg.ok
           THEN /\ variants_cfg' = cfg.val
                /\ pc' = "expand_field_groups"
                /\ error' = error
           ELSE /\ error' = cfg.err
                /\ pc' = "return"
                /\ variants_cfg' = variants_cfg
    /\ UNCHANGED <<args, input, emitted, ctx_index, processed_fields, variant_tokens, output, orig_struct>>

\* variants: expand_field_groups(&mut variants_cfg)
ExpandFieldGroups ==
    /\ pc = "expand_field_groups"
    /\ variants_cfg' = expand_field_groups(variants_cfg)
    /\ pc' = "validate_fluent_contexts"
    /\ UNCHANGED <<args, input, error, emitted, ctx_index, processed_fields, variant_tokens, output, orig_struct>>

\* validate_fluent_contexts, one iteration of the loop over the contexts:
\* the conflicts in the order the HashMap yields them, then the coverage
ValidateContext ==
    /\ pc = "validate_fluent_contexts"
    /\ ctx_index < Len(variants_cfg.fluent_contexts)
    /\ \E order \in IterationOrders(conflict_fields(variants_cfg.fluent_contexts[ctx_index + 1])) :
           emitted' = emitted \o context_errors(variants_cfg.fluent_contexts[ctx_index + 1],
                                                variants_cfg, order)
    /\ ctx_index' = ctx_index + 1
    /\ UNCHANGED <<args, input, pc, variants_cfg, error, processed_fields, variant_tokens, output, orig_struct>>

\* validate_fluent_contexts returns when the loop is over
ValidateReturn ==
    /\ pc = "validate_fluent_contexts"
    /\ ctx_index = Len(variants_cfg.fluent_contexts)
    /\ pc' = "process_field"
    /\ UNCHANGED <<args, input, variants_cfg, error, emitted, ctx_index, processed_fields, variant_tokens, output, orig_struct>>

\* expand_context_variants: process_field for every field, the checks of the
\* variant names, then the struct's attributes are put into the config
ProcessFields ==
    /\ pc = "process_field"
    /\ LET specs == [i \in 1..Len(input.fields) |-> process_field(input.fields[i], variants_cfg)]
           unknown == unknown_variant(specs, variants_cfg)
       IN  /\ processed_fields' = specs
           /\ IF unknown # None
              THEN /\ error' = unknown
                   /\ pc' = "return"
                   /\ variants_cfg' = variants_cfg
              ELSE /\ error' = error
                   /\ pc' = "generate"
                   /\ variants_cfg' =
                        [variants_cfg EXCEPT !.default_required = input.ctx_default_required,
                                             !.default_optional = input.ctx_default_optional,
                                             !.default_never = input.ctx_default_never,
                                             !.default_optional_attrs =
                                                 input.ctx_default_optional_attrs,
                                             !.default_required_attrs =
                                                 input.ctx_default_required_attrs,
                                             !.base_only_attrs =
                                                 name_list(attrs_named(input.attrs,
                                                                       {"ctx_base_only"})),
                                             !.variants_only_attrs =
                                                 name_list(attrs_named(input.attrs,
                                                                       {"ctx_variants_only"}))]
    /\ UNCHANGED <<args, input, emitted, ctx_index, variant_tokens, output, orig_struct>>

\* a loop over the variants in the order a hash table would yield them
GenerateVariantsAnyOrder ==
    /\ pc = "generate"
    /\ \E order \in Permutations(1..Len(variants_cfg.variants)) :
           variant_tokens' =
               [i \in 1..Len(variants_cfg.variants) |->
                   generate_variants(processed_fields, variants_cfg,
                                     struct_attrs(input))[order[i]]]
    /\ orig_struct' = original_struct(processed_fields, struct_attrs(input))
    /\ pc' = "return"
    /\ UNCHANGED <<args, input, variants_cfg, error, emitted, ctx_index, processed_fields, output>>

\* expand_context_variants: the original struct, then the loop over
\* cfg.variants
GenerateVariants ==
    /\ pc = "generate"
    /\ orig_struct' = original_struct(processed_fields, struct_attrs(input))
    /\ variant_tokens' = generate_variants(processed_fields, variants_cfg, struct_attrs(input))
    /\ pc' = "return"
    /\ UNCHANGED <<args, input, variants_cfg, error, emitted, ctx_index, processed_fields, output>>

\* an entry point that returns the generated tokens whatever was recorded
entry_point_drops_recorded(err, errors, tokens) ==
    IF err # None THEN [kind |-> "errors", errors |-> <<err>>, variants |-> <<>>]
    ELSE [kind |-> "tokens", errors |-> <<>>, variants |-> tokens]

\* what #[proc_macro_error] makes of the result: the recorded errors if there
\* are any, else the returned error or the generated tokens
entry_point(err, errors, tokens) ==
    IF errors # <<>> THEN [kind |-> "errors", errors |-> errors, variants |-> <<>>]
    ELSE IF err # None THEN [kind |-> "errors", errors |-> <<err>>, variants |-> <<>>]
    ELSE [kind |-> "tokens", errors |-> <<>>, variants |-> tokens]

\* variants returns
Return ==
    /\ pc = "return"
    /\ output' = entry_point(error, emitted, variant_tokens)
    /\ pc' = "done"
    /\ UNCHANGED <<args, input, variants_cfg, error, emitted, ctx_index, processed_fields, variant_tokens, orig_struct>>

Next ==
    \/ ParseMixedArgs
    \/ ExpandFieldGroups
    \/ ValidateContext
    \/ ValidateReturn
    \/ ProcessFields
    \/ GenerateVariants
    \/ Return

Spec == Init /\ [][Next]_vars

\* the macro on an annotated struct
InitStruct ==
    /\ args \in StructSources
    /\ input \in AnnotatedStructs
    /\ pc = "parse_mixed_args"
    /\ variants_cfg = None
    /\ error = None
    /\ emitted = <<>>
    /\ ctx_index = 0
    /\ processed_fields = <<>>
    /\ variant_tokens = <<>>
    /\ orig_struct = None
    /\ output = None

SpecStruct == InitStruct /\ [][Next]_vars

\* the macro on a struct with attributes of the struct and the attributes
\* that classify a field
InitAttributes ==
    /\ args \in AttributeSources
    /\ input \in ClassifiedStructs \cup DecoratedStructs
    /\ pc = "parse_mixed_args"
    /\ variants_cfg = None
    /\ error = None
    /\ emitted = <<>>
    /\ ctx_index = 0
    /\ processed_fields = <<>>
    /\ variant_tokens = <<>>
    /\ orig_struct = None
    /\ output = None

SpecAttributes == InitAttributes /\ [][Next]_vars


(***************************************************************************)
(* What the rule source says, read off the source itself.                   *)
(***************************************************************************)
DeclaredFields == Range(all_field_names)

\* the positions of the rule source that hold a chain
ChainPositions(src) == {p \in 1..Len(src) : src[p].k = "FluentContext"}

\* the number of the context definition at position p among the contexts: the
\* k-th context of the rule source is the k-th variant
ContextNumber(src, p) == Cardinality({q \in 1..p : src[q].k \in {"Path", "FluentContext"}})

\* the number of the chain at position p among the chains
ChainNumber(src, p) == Cardinality({q \in 1..p : src[q].k = "FluentContext"})

\* the calls of a chain with a given name, as positions in the chain
CallsNamed(chain, m) == {i \in 1..Len(chain) : chain[i].method = m}

\* the groups the rule source defines: name and members
SourceGroups(src) ==
    UNION {{[key |-> src[p].value.groups[i].method,
             val |-> [j \in 1..Len(src[p].value.groups[i].args) |->
                         src[p].value.groups[i].args[j].id]] :
                i \in 1..Len(src[p].value.groups)} :
           p \in {q \in 1..Len(src) : src[q].k = "NameValue" /\ src[q].name = "groups"}}

IsGroup(src, id) == \E g \in SourceGroups(src) : g.key = id

GroupMembers(src, id) == Range((CHOOSE g \in SourceGroups(src) : g.key = id).val)

IsWildcard(e) ==
    \/ e.k = "call" /\ e.id = "all_fields"
    \/ e.k = "method" /\ e.recv = "call" /\ e.id = "all_fields" /\ e.method = "except"

IsGroupExcept(e) == e.k = "method" /\ e.recv = "path" /\ e.method = "except"

\* how often a reference of the rule source names the field: a wildcard
\* names every declared field outside its exceptions, a group its members, a
\* group with exceptions its members outside the exceptions, any other
\* reference the field of that name
TimesNamed(src, e, f) ==
    CASE IsWildcard(e) -> IF f \in DeclaredFields /\ ~Contains(e.args, f) THEN 1 ELSE 0
      [] IsGroupExcept(e) ->
            IF IsGroup(src, e.id) /\ f \in GroupMembers(src, e.id) /\ ~Contains(e.args, f)
            THEN 1 ELSE 0
      [] e.k = "path" /\ IsGroup(src, e.id) ->
            LET g == (CHOOSE g \in SourceGroups(src) : g.key = e.id).val
            IN  Cardinality({j \in 1..Len(g) : g[j] = f})
      [] OTHER -> IF e.id = f THEN 1 ELSE 0

\* the references of the calls named m of a chain, as (call, argument)
RefsOf(chain, m) ==
    {<<i, j>> \in (1..Len(chain)) \X (1..(MaxArgs + 1)) :
        chain[i].method = m /\ j <= Len(chain[i].args)}

\* the field is matched by the list m of the chain
ListMatches(src, chain, m, f) ==
    \E r \in RefsOf(chain, m) : TimesNamed(src, chain[r[1]].args[r[2]], f) > 0

DefaultOfName(n) ==
    CASE n = "required" -> "Required"
      [] n = "optional" -> "Optional"
      [] n = "exclude" -> "Exclude"
      [] OTHER -> None

\* the default(...) of a chain: that of its last default call, None without
SourceDefault(chain) ==
    IF CallsNamed(chain, "default") = {}
    THEN None
    ELSE LET last == CHOOSE i \in CallsNamed(chain, "default") :
                         \A j \in CallsNamed(chain, "default") : j <= i
         IN  IF Len(chain[last].args) = 1 THEN DefaultOfName(chain[last].args[1].id) ELSE None

\* the global default of a rule source, None without
SourceGlobalDefault(src) ==
    LET ds == {p \in 1..Len(src) : src[p].k = "NameValue" /\ src[p].name = "default"}
    IN  IF ds = {} THEN None
        ELSE DefaultOfName(src[CHOOSE p \in ds : \A q \in ds : q <= p].value.s)

\* the fate of a field in the k-th generated variant
Fate(k, f) ==
    IF \A i \in 1..Len(variant_tokens[k].fields) : variant_tokens[k].fields[i].ident # f
    THEN "Exclude"
    ELSE IF \E i \in 1..Len(variant_tokens[k].fields) :
                /\ variant_tokens[k].fields[i].ident = f
                /\ variant_tokens[k].fields[i].required_here
    THEN "Required"
    ELSE "Optional"

\* the precedence of the classifier
FirstRule(excluded, optional, required, ctx_default, global_default) ==
    IF excluded THEN "Exclude"
    ELSE IF optional THEN "Optional"
    ELSE IF required THEN "Required"
    ELSE IF ctx_default # None THEN ctx_default
    ELSE IF global_default # None THEN global_default
    ELSE "Optional"

\* the classification the rule source asks for: the field f in the context
\* at position p, with the given default of the context
Asked(src, p, f, ctx_default) ==
    FirstRule(ListMatches(src, src[p].chain, "excludes", f),
              ListMatches(src, src[p].chain, "optional", f),
              ListMatches(src, src[p].chain, "requires", f),
              ctx_default,
              SourceGlobalDefault(src))

\* the default(...) the parser has kept for the chain at position p
ParsedDefault(p) == variants_cfg.fluent_contexts[ChainNumber(args, p)].default_behavior

\* the positions of the rule source that hold a context, bare or with a chain
ContextPositions(src) == {p \in 1..Len(src) : src[p].k \in {"Path", "FluentContext"}}

\* the variants have been generated
Generated == pc \in {"return", "done"} /\ variant_tokens # <<>>

\* the rule source has been parsed and validated
Validated ==
    \/ pc \in {"process_field", "generate"}
    \/ pc \in {"return", "done"} /\ processed_fields # <<>>

\* parse_mixed_args has returned an error
ParseFailed == pc \in {"return", "done"} /\ processed_fields = <<>>

\* the diagnostics of one kind recorded for the context at position p
Recorded(kind, p) == {i \in 1..Len(emitted) : emitted[i].kind = kind /\ emitted[i].span = p}

\* the lists of a chain that match the field
ListsMatching(src, chain, f) == {m \in ListMethods : ListMatches(src, chain, m, f)}

LabelOf(m) ==
    CASE m = "requires" -> "required"
      [] m = "optional" -> "optional"
      [] m = "excludes" -> "excluded"

\* the declared fields no list of the context at position p matches
Unmatched(src, p) == {f \in DeclaredFields : ListsMatching(src, src[p].chain, f) = {}}

(***************************************************************************)
(* C1: for every context of the rule source and every declared field the    *)
(* classification is that of the first rule that applies: excluded list,    *)
(* optional list, required list, the context's default(...), the global     *)
(* default, Optional.  The code drops a default(...) that is the first call *)
(* of a longer chain, and gives the fields of a bare name no global         *)
(* default: TLC finds this violated.                                        *)
(***************************************************************************)
C1_FirstRuleDecides ==
    Generated =>
        \A p \in ContextPositions(args) : \A f \in DeclaredFields :
            Fate(ContextNumber(args, p), f)
                = Asked(args, p, f, SourceDefault(args[p].chain))

(***************************************************************************)
(* C2: within one context the validator reports a conflict for a declared   *)
(* field exactly when more than one of the three lists matches it, and the  *)
(* diagnostic names the lists that matched; a field that only one list      *)
(* matches, however often, is no conflict.  The code counts one mention per *)
(* matching reference: TLC finds this violated.                             *)
(***************************************************************************)
C2_ConflictIffSeveralLists ==
    Validated =>
        \A p \in ChainPositions(args) : \A f \in DeclaredFields :
            /\ (\E i \in Recorded("conflict", p) : emitted[i].field = f)
                   <=> Cardinality(ListsMatching(args, args[p].chain, f)) > 1
            /\ \A i \in Recorded("conflict", p) :
                   emitted[i].field = f =>
                       Range(emitted[i].mentions)
                           = {LabelOf(m) : m \in ListsMatching(args, args[p].chain, f)}

(***************************************************************************)
(* C3: for every context of the rule source, with a chain or a bare name:   *)
(* without a default(...) of the context and without a global default,      *)
(* every declared field that none of its lists matches is named in a        *)
(* coverage diagnostic of the context; with either default the context has  *)
(* no coverage diagnostic.  The code reports the fields of a chain whose    *)
(* first call is its default(...), and never checks a bare name: TLC finds  *)
(* this violated.                                                           *)
(***************************************************************************)
C3_CoverageIffNoDefault ==
    Validated =>
        \A p \in ContextPositions(args) :
            IF SourceDefault(args[p].chain) = None /\ SourceGlobalDefault(args) = None
            THEN \A f \in Unmatched(args, p) :
                     \E i \in Recorded("missing", p) : Contains(emitted[i].fields, f)
            ELSE Recorded("missing", p) = {}

C5_NoTableOnFailure ==
    pc = "done" =>
        IF emitted # <<>> \/ error # None
        THEN output.kind = "errors" /\ output.variants = <<>> /\ output.errors # <<>>
        ELSE output.kind = "tokens" /\ output.variants = variant_tokens /\ variant_tokens # <<>>

\* a failed session of two contexts, the first of which validated cleanly
C5_Witness ==
    /\ pc = "done"
    /\ ~ParseFailed
    /\ Len(variants_cfg.fluent_contexts) = 2
    /\ Recorded("conflict", 1) = {} /\ Recorded("missing", 1) = {}
    /\ Recorded("conflict", 2) # {}
    /\ Len(variant_tokens) = 2
    /\ output.kind = "errors"

\* a call of a chain the grammar does not know, or a default(...) whose
\* argument is none of required, optional, exclude
BadCall(c) ==
    \/ c.method \notin ListMethods \cup {"default"}
    \/ /\ c.method = "default"
       /\ ~(/\ Len(c.args) = 1
            /\ c.args[1].k = "path"
            /\ c.args[1].id \in {"required", "optional", "exclude"})

\* a directive whose value is of the wrong kind
BadDirective(it) ==
    /\ it.k = "NameValue"
    /\ \/ it.name \in {"prefix", "suffix"} /\ it.value.k # "str"
       \/ it.name = "default" /\ it.value.k \notin {"str", "path"}
       \/ it.name = "groups" /\ it.value.k \notin {"call", "tuple"}

\* the rule source holds a construct the parser has to reject
Malformed(src) ==
    \E p \in 1..Len(src) :
        \/ BadDirective(src[p])
        \/ /\ src[p].k = "FluentContext"
           /\ \/ src[p].chain = <<>>
              \/ \E i \in 1..Len(src[p].chain) : BadCall(src[p].chain[i])

(***************************************************************************)
(* C6: a rule source with a malformed call, a call of an unknown name, a    *)
(* wrong argument of default(...) or a directive value of the wrong kind     *)
(* fails to parse, and a session whose parsing fails stops there: no group   *)
(* expansion, no validation, no classification, no conflict or coverage     *)
(* diagnostic, and the parse error is all it returns.                       *)
(***************************************************************************)
C6_ParseErrorStopsSession ==
    /\ (Malformed(args) /\ pc # "parse_mixed_args") => ParseFailed
    /\ ParseFailed =>
           /\ error # None
           /\ emitted = <<>>
           /\ ctx_index = 0
           /\ variant_tokens = <<>>
           /\ pc = "done" => output = [kind |-> "errors", errors |-> <<error>>, variants |-> <<>>]

\* a chain whose second call has an unknown name, after a first call that
\* alone would have left a coverage gap
C6_Witness ==
    /\ pc = "done"
    /\ ParseFailed
    /\ \E p \in ChainPositions(args) :
           /\ Len(args[p].chain) = 2
           /\ args[p].chain[1].method = "requires"
           /\ args[p].chain[2].method \notin ListMethods \cup {"default"}

\* the references of the three lists of a chain, as (call, argument)
ListRefs(chain) == UNION {RefsOf(chain, m) : m \in ListMethods}

\* the chain at position p has a reference to a name that is neither a
\* declared field nor a defined group
NamesUndefined(src, p) ==
    \E r \in ListRefs(src[p].chain) :
        /\ src[p].chain[r[1]].args[r[2]].k = "path"
        /\ src[p].chain[r[1]].args[r[2]].id \notin DeclaredFields
        /\ ~IsGroup(src, src[p].chain[r[1]].args[r[2]].id)

(***************************************************************************)
(* C7: a reference of a context's list to a name that is neither a declared *)
(* field nor a defined group is a hard error of the group expansion, which  *)
(* aborts the session.  The code keeps such a name as a field reference     *)
(* that matches nothing and goes on: TLC finds this violated.               *)
(***************************************************************************)
C7_UndefinedGroupAborts ==
    (/\ pc \notin {"parse_mixed_args", "expand_field_groups"}
     /\ \E p \in ChainPositions(args) : NamesUndefined(args, p))
        => /\ pc \in {"return", "done"}
           /\ error # None
           /\ variant_tokens = <<>>

\* the chain at position p names a wildcard in one of its lists
NamesWildcard(src, p) ==
    \E r \in ListRefs(src[p].chain) : IsWildcard(src[p].chain[r[1]].args[r[2]])

\* the chain at position p names a defined group in one of its lists
NamesGroup(src, p) ==
    \E r \in ListRefs(src[p].chain) :
        /\ src[p].chain[r[1]].args[r[2]].k = "path"
        /\ IsGroup(src, src[p].chain[r[1]].args[r[2]].id)

\* the chain at position p names a defined group with exceptions
NamesGroupExcept(src, p) ==
    \E r \in ListRefs(src[p].chain) :
        /\ IsGroupExcept(src[p].chain[r[1]].args[r[2]])
        /\ IsGroup(src, src[p].chain[r[1]].args[r[2]].id)

(***************************************************************************)
(* C8: a wildcard all_fields().except(S), written all_fields(S) as well,    *)
(* matches a field exactly when the field is declared and not in S: names   *)
(* of S that are no declared fields change nothing, and all_fields()        *)
(* matches every declared field.  So every field of a context that names a  *)
(* wildcard is classified as by the first list that matches it in this      *)
(* sense, else by the default.                                              *)
(***************************************************************************)
C8_WildcardMatches ==
    Generated =>
        \A p \in ChainPositions(args) :
            NamesWildcard(args, p) =>
                \A f \in DeclaredFields :
                    Fate(ContextNumber(args, p), f) = Asked(args, p, f, ParsedDefault(p))

\* requires(all_fields().except(token, ghost)).default(exclude): token is
\* left out, the other fields are required
C8_Witness ==
    /\ Generated
    /\ Len(args) = 1 /\ args[1].k = "FluentContext"
    /\ args[1].chain =
           <<Call("requires", <<EMethod("call", "all_fields", "except", <<"token", "ghost">>)>>),
             Call("default", <<EPath("exclude")>>)>>
    /\ Fate(1, "user_id") = "Required"
    /\ Fate(1, "name") = "Required"
    /\ Fate(1, "token") = "Exclude"

\* every construct of the rule source is one the grammar describes
WellFormed(src) ==
    /\ ~Malformed(src)
    /\ \A p \in 1..Len(src) :
           src[p].k = "NameValue" =>
               /\ src[p].name \in {"prefix", "suffix", "default", "groups"}
               /\ \A i \in 1..Len(src[p].value.groups) :
                      \A j \in 1..Len(src[p].value.groups[i].args) :
                          src[p].value.groups[i].args[j].k = "path"
    /\ \A p \in ChainPositions(src) : \A r \in ListRefs(src[p].chain) :
           \/ src[p].chain[r[1]].args[r[2]].k = "path"
           \/ IsWildcard(src[p].chain[r[1]].args[r[2]])
           \/ /\ IsGroupExcept(src[p].chain[r[1]].args[r[2]])
              /\ IsGroup(src, src[p].chain[r[1]].args[r[2]].id)

(***************************************************************************)
(* C9: a group with exceptions, group_name.except(E), is accepted in a list *)
(* of a context and matches a field exactly when the field is a member of   *)
(* the group and not in E.  The parser rejects the construct as an          *)
(* unsupported method call: TLC finds this violated.                        *)
(***************************************************************************)
C9_GroupExceptAccepted ==
    (/\ pc = "done"
     /\ WellFormed(args)
     /\ \E p \in ChainPositions(args) : NamesGroupExcept(args, p))
        => /\ ~ParseFailed
           /\ \A p \in ChainPositions(args) : \A f \in DeclaredFields :
                  NamesGroupExcept(args, p) =>
                      Fate(ContextNumber(args, p), f) = Asked(args, p, f, ParsedDefault(p))

(***************************************************************************)
(* C10: a defined group named in a list of a context classifies just its    *)
(* members, as if each were named in that list, and leaves the fields       *)
(* outside the group to the other lists and the default: with               *)
(* auth = (user_id, token), requires(auth).default(exclude) makes user_id   *)
(* and token required and leaves name out.                                  *)
(***************************************************************************)
C10_GroupNamesItsMembers ==
    Generated =>
        \A p \in ChainPositions(args) :
            NamesGroup(args, p) =>
                \A f \in DeclaredFields :
                    Fate(ContextNumber(args, p), f) = Asked(args, p, f, ParsedDefault(p))

\* groups = auth(user_id, token), requires(auth).default(exclude)
C10_Witness ==
    /\ Generated
    /\ Len(args) = 2
    /\ args[1] = NameValueItem("groups", VGroup(AuthGroup))
    /\ args[2].k = "FluentContext"
    /\ args[2].chain = <<Call("requires", <<EPath("auth")>>), Call("default", <<EPath("exclude")>>)>>
    /\ Fate(1, "user_id") = "Required"
    /\ Fate(1, "token") = "Required"
    /\ Fate(1, "name") = "Exclude"

\* the positions of the rule source that hold a groups directive
GroupsPositions(src) == {p \in 1..Len(src) : src[p].k = "NameValue" /\ src[p].name = "groups"}

\* the rule source defines a group with a wildcard for a member
DefinesWildcardGroup(src) ==
    \E p \in GroupsPositions(src) : \E i \in 1..Len(src[p].value.groups) :
        \E j \in 1..Len(src[p].value.groups[i].args) :
            IsWildcard(src[p].value.groups[i].args[j])

\* the concrete field set of a group whose members are fields and wildcards
ResolvedGroup(src, id) ==
    {f \in DeclaredFields :
        \E p \in GroupsPositions(src) : \E i \in 1..Len(src[p].value.groups) :
            /\ src[p].value.groups[i].method = id
            /\ \E j \in 1..Len(src[p].value.groups[i].args) :
                   \/ /\ src[p].value.groups[i].args[j].k = "path"
                      /\ src[p].value.groups[i].args[j].id = f
                   \/ /\ IsWildcard(src[p].value.groups[i].args[j])
                      /\ ~Contains(src[p].value.groups[i].args[j].args, f)}

\* the list m of the chain matches the field, a group standing for its
\* concrete field set
ListMatchesResolved(src, chain, m, f) ==
    \E r \in RefsOf(chain, m) :
        IF chain[r[1]].args[r[2]].k = "path" /\ IsGroup(src, chain[r[1]].args[r[2]].id)
        THEN f \in ResolvedGroup(src, chain[r[1]].args[r[2]].id)
        ELSE TimesNamed(src, chain[r[1]].args[r[2]], f) > 0

\* a rule source of the grammar whose groups have fields and wildcards for
\* members and whose lists name fields, groups and wildcards
GrammarWithWildcardGroups(src) ==
    /\ ~Malformed(src)
    /\ \A p \in 1..Len(src) :
           src[p].k = "NameValue" =>
               /\ src[p].name \in {"prefix", "suffix", "default", "groups"}
               /\ \A i \in 1..Len(src[p].value.groups) :
                      \A j \in 1..Len(src[p].value.groups[i].args) :
                          \/ src[p].value.groups[i].args[j].k = "path"
                          \/ IsWildcard(src[p].value.groups[i].args[j])
    /\ \A p \in ChainPositions(src) : \A r \in ListRefs(src[p].chain) :
           \/ src[p].chain[r[1]].args[r[2]].k = "path"
           \/ IsWildcard(src[p].chain[r[1]].args[r[2]])

(***************************************************************************)
(* C11: a group may have a wildcard for a member: a group defined as        *)
(* all_fields().except(S) stands for the declared fields outside S, and a   *)
(* context that names the group matches just these fields.  The parser      *)
(* takes only identifiers for the members of a group and rejects the        *)
(* definition: TLC finds this violated.                                     *)
(***************************************************************************)
C11_WildcardGroupResolves ==
    (pc = "done" /\ DefinesWildcardGroup(args) /\ GrammarWithWildcardGroups(args))
        => /\ ~ParseFailed
           /\ \A p \in ChainPositions(args) : \A f \in DeclaredFields :
                  NamesGroup(args, p) =>
                      Fate(ContextNumber(args, p), f)
                          = FirstRule(ListMatchesResolved(args, args[p].chain, "excludes", f),
                                      ListMatchesResolved(args, args[p].chain, "optional", f),
                                      ListMatchesResolved(args, args[p].chain, "requires", f),
                                      ParsedDefault(p),
                                      SourceGlobalDefault(args))

\* field as T, the type T being StringType in the rule sources explored
IsCast(e) == e.k = "cast"

CastType == TyPath(<<"StringType">>, <<>>)

\* the list m of the chain holds a reference to f with a type override
CastIn(chain, m, f) ==
    \E r \in RefsOf(chain, m) :
        IsCast(chain[r[1]].args[r[2]]) /\ chain[r[1]].args[r[2]].id = f

\* the chain at position p has a reference with a type override in its
\* requires or optional list
NamesCast(src, p) ==
    \E f \in DeclaredFields : CastIn(src[p].chain, "requires", f) \/ CastIn(src[p].chain, "optional", f)

\* the list m of the chain matches the field, by name, wildcard or a
\* reference with a type override
ListMatchesCast(src, chain, m, f) == ListMatches(src, chain, m, f) \/ CastIn(chain, m, f)

\* a rule source of the grammar whose lists name fields, groups, wildcards
\* and, in requires and optional, declared fields with a type override
GrammarWithCasts(src) ==
    /\ ~Malformed(src)
    /\ \A p \in 1..Len(src) :
           src[p].k = "NameValue" =>
               /\ src[p].name \in {"prefix", "suffix", "default", "groups"}
               /\ \A i \in 1..Len(src[p].value.groups) :
                      \A j \in 1..Len(src[p].value.groups[i].args) :
                          src[p].value.groups[i].args[j].k = "path"
    /\ \A p \in ChainPositions(src) : \A r \in ListRefs(src[p].chain) :
           \/ src[p].chain[r[1]].args[r[2]].k = "path"
           \/ IsWildcard(src[p].chain[r[1]].args[r[2]])
           \/ /\ IsCast(src[p].chain[r[1]].args[r[2]])
              /\ src[p].chain[r[1]].args[r[2]].id \in DeclaredFields
              /\ src[p].chain[r[1]].method \in {"requires", "optional"}

\* the type of a field in the k-th generated variant
TypeIn(k, f) ==
    (CHOOSE vf \in Range(variant_tokens[k].fields) : vf.ident = f).ty

(***************************************************************************)
(* C12: a reference with a type override, field as T, in the requires or    *)
(* the optional list of a context is accepted; the field is classified as   *)
(* by the list that names it, and its type in that context is T when it is  *)
(* required and T in one optional container when it is optional.  The       *)
(* parser takes only a name or a call for a list entry and rejects the      *)
(* override: TLC finds this violated.                                       *)
(***************************************************************************)
C12_TypeOverrideAccepted ==
    (/\ pc = "done"
     /\ GrammarWithCasts(args)
     /\ \E p \in ChainPositions(args) : NamesCast(args, p))
        => /\ ~ParseFailed
           /\ \A p \in ChainPositions(args) : \A f \in DeclaredFields :
                  /\ NamesCast(args, p) =>
                         Fate(ContextNumber(args, p), f)
                             = FirstRule(ListMatchesCast(args, args[p].chain, "excludes", f),
                                         ListMatchesCast(args, args[p].chain, "optional", f),
                                         ListMatchesCast(args, args[p].chain, "requires", f),
                                         ParsedDefault(p),
                                         SourceGlobalDefault(args))
                  /\ (CastIn(args[p].chain, "requires", f)
                      /\ Fate(ContextNumber(args, p), f) = "Required")
                         => TypeIn(ContextNumber(args, p), f) = CastType
                  /\ (CastIn(args[p].chain, "optional", f)
                      /\ Fate(ContextNumber(args, p), f) = "Optional")
                         => TypeIn(ContextNumber(args, p), f) = option_of(CastType)

\* the declared type of a field of the struct
DeclaredTypeOf(f) == (CHOOSE fld \in Range(input.fields) : fld.ident = f).ty

\* the number of optional containers written in a type
OptionCount(ty) == Cardinality({i \in 1..Len(TyTokens(ty)) : TyTokens(ty)[i] = "Option"})

\* the optional wrapping of a type, as the generator does it for a field
\* declared with that type
OptionalWrapping(ty) == ty_tokens([ty |-> ty, is_option |-> is_option_type(ty)], FALSE)

\* the numbers of the generated variants
VariantNumbers == 1..Len(variant_tokens)

(***************************************************************************)
(* C13: a field that is required in a context has its declared type there,  *)
(* unchanged.  A field that is optional in a context has its declared type  *)
(* in one optional container, and a declared type that is an optional       *)
(* container already is left as it is, never wrapped a second time.         *)
(* Wrapping twice gives what wrapping once gives.                           *)
(***************************************************************************)
C13_OptionalWrapsOnce ==
    Generated =>
        \A k \in VariantNumbers : \A f \in DeclaredFields :
            /\ Fate(k, f) = "Required" => TypeIn(k, f) = DeclaredTypeOf(f)
            /\ Fate(k, f) = "Optional" =>
                   /\ OptionCount(TypeIn(k, f)) = 1
                   /\ OptionCount(DeclaredTypeOf(f)) = 1 => TypeIn(k, f) = DeclaredTypeOf(f)
                   /\ OptionCount(DeclaredTypeOf(f)) = 0 =>
                          /\ TypeIn(k, f).is_path
                          /\ TypeIn(k, f).segments = <<"core", "option", "Option">>
                          /\ TypeIn(k, f).tokens = TyTokens(DeclaredTypeOf(f))
                   /\ OptionalWrapping(TypeIn(k, f)) = TypeIn(k, f)
                   /\ OptionalWrapping(OptionalWrapping(DeclaredTypeOf(f)))
                          = OptionalWrapping(DeclaredTypeOf(f))

\* user_id: std::option::Option<u64> and name: String are both optional in
\* Create; the first keeps its type, the second is wrapped
C13_Witness ==
    /\ pc = "done"
    /\ output.kind = "tokens"
    /\ DeclaredTypeOf("user_id") = TyPath(<<"std", "option", "Option">>, <<"u64">>)
    /\ Fate(1, "user_id") = "Optional"
    /\ TypeIn(1, "user_id") = TyPath(<<"std", "option", "Option">>, <<"u64">>)
    /\ Fate(1, "name") = "Optional"
    /\ TypeIn(1, "name") = TyPath(<<"core", "option", "Option">>, <<"String">>)
    /\ Fate(2, "name") = "Required"
    /\ TypeIn(2, "name") = TyPath(<<"String">>, <<>>)

\* the session has succeeded: it returns the generated variants
Succeeded == pc = "done" /\ output.kind = "tokens"

\* the position of a field in the declaration of the struct
DeclaredAt(f) == CHOOSE i \in 1..Len(all_field_names) : all_field_names[i] = f

\* the names of the fields of the k-th variant returned, in their order
FieldNames(k) ==
    [i \in 1..Len(output.variants[k].fields) |-> output.variants[k].fields[i].ident]

\* the classifier has excluded the field from the k-th variant
ClassifiedExcluded(k, f) ==
    \E i \in 1..Len(processed_fields) :
        /\ processed_fields[i].ident = f
        /\ excluded_here(processed_fields[i], output.variants[k].variant, variants_cfg)

(***************************************************************************)
(* C14: a session that succeeds returns the contexts in the order the rule  *)
(* source declares them, and in each context the fields in the order the    *)
(* struct declares them: the fields classified as excluded are left out and *)
(* every other declared field is there exactly once.                        *)
(***************************************************************************)
C14_DeclarationOrder ==
    Succeeded =>
        /\ Len(output.variants) = Cardinality(ContextPositions(args))
        /\ \A p \in ContextPositions(args) :
               output.variants[ContextNumber(args, p)].variant = args[p].name
        /\ \A k \in 1..Len(output.variants) :
               /\ \A i, j \in 1..Len(FieldNames(k)) :
                      i < j => DeclaredAt(FieldNames(k)[i]) < DeclaredAt(FieldNames(k)[j])
               /\ \A f \in DeclaredFields :
                      /\ ClassifiedExcluded(k, f) <=> f \notin Range(FieldNames(k))
                      /\ ~ClassifiedExcluded(k, f) =>
                             Cardinality({i \in 1..Len(FieldNames(k)) : FieldNames(k)[i] = f}) = 1

\* Create: optional(token).default(exclude), Update: Create has token alone,
\* Update has the three fields in their declared order
C14_Witness ==
    /\ Succeeded
    /\ Len(output.variants) = 2
    /\ output.variants[1].variant = "Create"
    /\ output.variants[2].variant = "Update"
    /\ FieldNames(1) = <<"token">>
    /\ FieldNames(2) = all_field_names

\* the configuration a rule source and a struct stand for: the parsed rule
\* source with its groups expanded
ConfigOf(src) == expand_field_groups(parse_mixed_args(src).val)

\* the same with the struct's default attributes
ConfigWithDefaults(src, struct) ==
    [ConfigOf(src) EXCEPT !.default_required = struct.ctx_default_required,
                          !.default_optional = struct.ctx_default_optional,
                          !.default_never = struct.ctx_default_never,
                          !.default_optional_attrs = struct.ctx_default_optional_attrs,
                          !.default_required_attrs = struct.ctx_default_required_attrs,
                          !.base_only_attrs =
                              name_list(attrs_named(struct.attrs, {"ctx_base_only"})),
                          !.variants_only_attrs =
                              name_list(attrs_named(struct.attrs, {"ctx_variants_only"}))]

\* the resolved tables as a function of the rule source and the struct
ResolvedTables(src, struct) ==
    generate_variants([i \in 1..Len(struct.fields) |->
                          process_field(struct.fields[i], ConfigOf(src))],
                      ConfigWithDefaults(src, struct),
                      struct_attrs(struct))

(***************************************************************************)
(* C15: resolution is deterministic.  The tables a session generates and    *)
(* returns are a function of the field list, the groups, the contexts and   *)
(* the global default alone, so that two runs on the same input give the    *)
(* same contexts in the same order with the same fields, classifications,   *)
(* types and attributes, whatever order the hash table of the validation    *)
(* is iterated in.                                                          *)
(***************************************************************************)
C15_ResolutionDeterministic ==
    /\ Generated => variant_tokens = ResolvedTables(args, input)
    /\ Succeeded => output.variants = ResolvedTables(args, input)

\* a session that has returned two contexts which differ in the fate of
\* token
C15_Witness ==
    /\ Succeeded
    /\ Len(output.variants) = 2
    /\ Fate(1, "token") # Fate(2, "token")
    /\ output.variants = ResolvedTables(args, input)

(***************************************************************************)
(* C16: the diagnostics are recorded in a fixed order: two runs on the same *)
(* field list and rule source record the same conflict and coverage         *)
(* diagnostics in the same order, also when one context has conflicts on    *)
(* several fields.  A fixed order is checked as the order of the struct's   *)
(* declaration: the conflicts of one context follow the fields.  The        *)
(* validation iterates a hash table of the fields mentioned, which yields   *)
(* them in any order: TLC finds this violated.                              *)
(***************************************************************************)
C16_DiagnosticsOrderFixed ==
    Validated =>
        \A p \in ChainPositions(args) : \A i, j \in Recorded("conflict", p) :
            i < j => DeclaredAt(emitted[i].field) < DeclaredAt(emitted[j].field)

\* the number of entries of a field in the k-th variant returned, required
\* or optional
Entries(k, f, required) ==
    Cardinality({i \in 1..Len(output.variants[k].fields) :
                    /\ output.variants[k].fields[i].ident = f
                    /\ output.variants[k].fields[i].required_here = required})

(***************************************************************************)
(* C17: in a session that succeeds every declared field has exactly one     *)
(* fate in every context: it is there once as required, or once as          *)
(* optional, or it is absent because it was classified as excluded.  No     *)
(* field has two entries and none is left unclassified.                     *)
(***************************************************************************)
C17_ExactlyOneFate ==
    Succeeded =>
        \A k \in 1..Len(output.variants) : \A f \in DeclaredFields :
            \/ /\ Entries(k, f, TRUE) = 1
               /\ Entries(k, f, FALSE) = 0
               /\ ~ClassifiedExcluded(k, f)
            \/ /\ Entries(k, f, TRUE) = 0
               /\ Entries(k, f, FALSE) = 1
               /\ ~ClassifiedExcluded(k, f)
            \/ /\ Entries(k, f, TRUE) = 0
               /\ Entries(k, f, FALSE) = 0
               /\ ClassifiedExcluded(k, f)

\* Create: optional(token).default(exclude), Update: requires(all_fields()):
\* the three fates in one session
C17_Witness ==
    /\ Succeeded
    /\ Len(output.variants) = 2
    /\ Entries(1, "token", FALSE) = 1
    /\ Entries(1, "name", TRUE) + Entries(1, "name", FALSE) = 0
    /\ Entries(2, "name", TRUE) = 1

\* the positions of the rule source that hold a context declared as a bare
\* name
BarePositions(src) == {p \in 1..Len(src) : src[p].k = "Path"}

(***************************************************************************)
(* C18: a context declared as a bare name classifies every declared field   *)
(* by the global default: all required with default = required, all left    *)
(* out with default = exclude, all optional with default = optional.  The   *)
(* classifier applies the global default in its loop over the contexts with *)
(* a chain only, so the fields of a bare name are optional whatever the     *)
(* global default: TLC finds this violated.                                 *)
(***************************************************************************)
C18_BareNameTakesGlobalDefault ==
    (Succeeded /\ SourceGlobalDefault(args) # None)
        => \A p \in BarePositions(args) : \A f \in DeclaredFields :
               Fate(ContextNumber(args, p), f) = SourceGlobalDefault(args)

\* the attributes written on a field of the struct
WrittenOn(f) == (CHOOSE fld \in Range(input.fields) : fld.ident = f).attrs

\* the attributes of a kind written on a field, in their order
WrittenOf(f, kinds) == SelectSeq(WrittenOn(f), LAMBDA a : a.path \in kinds)

\* the field's own overlay for a classification: the attributes inside its
\* when_required or when_optional annotations (ctx_required_attr and
\* ctx_optional_attr are older names of the two), in the order written
OwnOverlay(f, fate) ==
    IF fate = "Required"
    THEN [i \in 1..Len(WrittenOf(f, {"when_required", "ctx_required_attr"})) |->
             WrittenOf(f, {"when_required", "ctx_required_attr"})[i].nested[1]]
    ELSE [i \in 1..Len(WrittenOf(f, {"when_optional", "ctx_optional_attr"})) |->
             WrittenOf(f, {"when_optional", "ctx_optional_attr"})[i].nested[1]]

\* the default overlay of the struct for a classification
DefaultOverlay(fate) ==
    IF fate = "Required" THEN input.ctx_default_required_attrs
    ELSE input.ctx_default_optional_attrs

\* the field has opted out of the default overlays
OptedOut(f) == WrittenOf(f, {"ctx_no_default_attrs"}) # <<>>

\* the overlay of a field in the k-th generated variant
OverlayIn(k, f) ==
    (CHOOSE vf \in Range(variant_tokens[k].fields) : vf.ident = f).conditional_attrs

BaseOverlay(f) ==
    [i \in 1..Len(WrittenOf(f, {"when_base"})) |-> WrittenOf(f, {"when_base"})[i].nested[1]]

\* all the attributes of a field in the k-th generated variant: the ones
\* copied from the struct, then the overlay
AttrsIn(k, f) ==
    (CHOOSE vf \in Range(variant_tokens[k].fields) : vf.ident = f).attrs \o OverlayIn(k, f)

(***************************************************************************)
(* C20: the base-only overlay of a field, when_base, belongs to the base    *)
(* record alone: whatever the field is classified as in a context, neither  *)
(* the annotation nor the attributes in it are among the field's attributes *)
(* in the variant of that context.  The generator has no case for           *)
(* when_base and copies it to every variant as an attribute like any        *)
(* other: TLC finds this violated.                                          *)
(***************************************************************************)
C20_BaseOverlayNotInVariants ==
    Generated =>
        \A k \in VariantNumbers : \A f \in DeclaredFields :
            Fate(k, f) # "Exclude" =>
                \A i \in 1..Len(AttrsIn(k, f)) :
                    /\ AttrsIn(k, f)[i].path # "when_base"
                    /\ AttrsIn(k, f)[i] \notin Range(BaseOverlay(f))

\* the directive keys of the rule source
DirectiveKeys ==
    {"prefix", "suffix", "default", "groups", "build_base", "optional_base",
     "optional_attrs", "required_attrs"}

\* the positions of the rule source that hold a directive
DirectivePositions(src) == {p \in 1..Len(src) : src[p].k = "NameValue"}

\* a directive of a known key has a value of the right kind
RightKind(it) ==
    CASE it.name \in {"prefix", "suffix"} -> it.value.k = "str"
      [] it.name = "default" ->
             it.value.k \in {"str", "path"} /\ DefaultOfName(it.value.s) # None
      [] it.name = "groups" ->
             /\ it.value.k \in {"call", "tuple"}
             /\ \A i \in 1..Len(it.value.groups) :
                    \A j \in 1..Len(it.value.groups[i].args) :
                        it.value.groups[i].args[j].k = "path"
      [] it.name \in {"build_base", "optional_base"} ->
             it.value.k = "lit" /\ it.value.s \in {"true", "false"}
      [] it.name \in {"optional_attrs", "required_attrs"} -> it.value.k = "array"
      [] OTHER -> FALSE

\* the contexts of the rule source are of the grammar, and there is one
PlainContexts(src) ==
    /\ ContextPositions(src) # {}
    /\ \A p \in ChainPositions(src) :
           /\ src[p].chain # <<>>
           /\ \A i \in 1..Len(src[p].chain) : ~BadCall(src[p].chain[i])
           /\ \A r \in ListRefs(src[p].chain) :
                  \/ src[p].chain[r[1]].args[r[2]].k = "path"
                  \/ IsWildcard(src[p].chain[r[1]].args[r[2]])

\* the value the parser has kept for a key it has a place for
KeptFor(key) ==
    CASE key = "prefix" -> variants_cfg.prefix
      [] key = "suffix" -> variants_cfg.suffix
      [] OTHER -> variants_cfg.global_default

\* the last directive of a key in the rule source
LastDirective(src, key) ==
    src[CHOOSE p \in DirectivePositions(src) :
            /\ src[p].name = key
            /\ \A q \in DirectivePositions(src) : src[q].name = key => q <= p]

(***************************************************************************)
(* C21: the parser accepts a directive of each of the keys prefix, suffix,  *)
(* default, groups, build_base, optional_base, optional_attrs and           *)
(* required_attrs with a value of the right kind and keeps the value; a     *)
(* directive of any other key is a parse error.  The parser knows the first *)
(* four keys only and answers "unknown parameter" to the other four: TLC    *)
(* finds this violated.                                                     *)
(***************************************************************************)
C21_DirectiveKeys ==
    (/\ pc = "done"
     /\ PlainContexts(args)
     /\ \A p \in DirectivePositions(args) :
            args[p].name \in DirectiveKeys => RightKind(args[p]))
        => /\ ParseFailed <=> \E p \in DirectivePositions(args) : args[p].name \notin DirectiveKeys
           /\ ~ParseFailed =>
                  /\ \A key \in {"prefix", "suffix"} :
                         (\E p \in DirectivePositions(args) : args[p].name = key)
                             => KeptFor(key) = LastDirective(args, key).value.s
                  /\ (\E p \in DirectivePositions(args) : args[p].name = "default")
                         => KeptFor("default")
                                = DefaultOfName(LastDirective(args, "default").value.s)
                  /\ \A g \in SourceGroups(args) :
                         MapHas(variants_cfg.field_groups, g.key)

\* the fates of the scenario: user_id required, name optional, token absent
ScenarioFates ==
    /\ Succeeded
    /\ Len(variant_tokens) = 1
    /\ Fate(1, "user_id") = "Required"
    /\ Fate(1, "name") = "Optional"
    /\ Fate(1, "token") = "Exclude"

(***************************************************************************)
(* C22 as stated: for the fields user_id, name, token and the context       *)
(* Update: requires(user_id).optional(all_fields().except(token))           *)
(* .default(exclude), resolution succeeds with user_id required, name       *)
(* optional and token absent.  The wildcard matches user_id as well, which  *)
(* the requires list names: TLC finds this violated.                        *)
(***************************************************************************)
C22_ScenarioSucceeds ==
    (pc = "done" /\ args = WildcardOverRequired) => ScenarioFates

(***************************************************************************)
(* C22, amended: that rule source fails with one conflict diagnostic, which *)
(* names user_id with required and optional, and returns no variant; with   *)
(* user_id among the exceptions of the wildcard, except(token, user_id),    *)
(* resolution succeeds with user_id required, name optional and token       *)
(* absent.                                                                  *)
(***************************************************************************)
C22_ScenarioConflicts ==
    /\ (pc = "done" /\ args = WildcardOverRequired)
           => /\ output.kind = "errors"
              /\ output.variants = <<>>
              /\ Len(emitted) = 1
              /\ emitted[1].kind = "conflict"
              /\ emitted[1].field = "user_id"
              /\ emitted[1].mentions = <<"required", "optional">>
              /\ output.errors = emitted
    /\ (pc = "done" /\ args = WildcardBesideRequired) => ScenarioFates

\* the scenario as stated has run and ended with its conflict
C22_Witness ==
    /\ pc = "done"
    /\ args = WildcardOverRequired
    /\ output.kind = "errors"
    /\ Len(output.errors) = 1

RECURSIVE ArgsOfCalls(_, _)
\* the arguments of the calls named m of a chain, in the order written
ArgsOfCalls(chain, m) ==
    IF chain = <<>> THEN <<>>
    ELSE (IF Head(chain).method = m THEN Head(chain).args ELSE <<>>)
         \o ArgsOfCalls(Tail(chain), m)

\* the reference an argument of a list stands for
WrittenRef(e) == IF IsWildcard(e) THEN AllFields(e.args) ELSE Field(e.id)

\* the references written in the calls named m of a chain
WrittenRefs(chain, m) ==
    [i \in 1..Len(ArgsOfCalls(chain, m)) |-> WrittenRef(ArgsOfCalls(chain, m)[i])]

\* the list of a parsed context that belongs to the calls named m
ListOf(fluent_ctx, m) ==
    CASE m = "requires" -> fluent_ctx.required_fields
      [] m = "optional" -> fluent_ctx.optional_fields
      [] OTHER -> fluent_ctx.excluded_fields

\* the rule source has been parsed without an error and nothing else done
Parsed == pc = "expand_field_groups"

(***************************************************************************)
(* C23: when a chain is parsed, each of the three lists of its context      *)
(* holds the arguments of all the calls of its name, requires, optional or  *)
(* excludes, and nothing else: whether the call is the first of the chain   *)
(* or a later one and however often the name is repeated, no argument is    *)
(* dropped and none goes to another list.                                   *)
(***************************************************************************)
C23_ListsAccumulate ==
    Parsed =>
        \A p \in ChainPositions(args) : \A m \in ListMethods :
            ListOf(variants_cfg.fluent_contexts[ChainNumber(args, p)], m)
                = WrittenRefs(args[p].chain, m)

\* requires(user_id).requires(token): both calls are in the required list
C23_Witness ==
    /\ Parsed
    /\ Len(args) = 1
    /\ args[1].k = "FluentContext"
    /\ args[1].chain = <<Call("requires", <<EPath("user_id")>>),
                         Call("requires", <<EPath("token")>>)>>
    /\ variants_cfg.fluent_contexts[1].required_fields = <<Field("user_id"), Field("token")>>
    /\ variants_cfg.fluent_contexts[1].optional_fields = <<>>

\* the attribute names the struct's #[ctx_variants_only(...)] lists
VariantsOnlyNames ==
    UNION {{input.attrs[i].nested[j].path : j \in 1..Len(input.attrs[i].nested)} :
           i \in {n \in 1..Len(input.attrs) : input.attrs[n].path = "ctx_variants_only"}}

\* the attribute names the struct's #[ctx_base_only(...)] lists
BaseOnlyNames ==
    UNION {{input.attrs[i].nested[j].path : j \in 1..Len(input.attrs[i].nested)} :
           i \in {n \in 1..Len(input.attrs) : input.attrs[n].path = "ctx_base_only"}}

(***************************************************************************)
(* C24: an attribute of the struct that #[ctx_variants_only(...)] names is  *)
(* on every generated variant and never on the base struct.  The generator  *)
(* keeps the names of ctx_variants_only and never reads them: the attribute *)
(* stays on the base struct.  TLC finds this violated.                      *)
(***************************************************************************)
C24_VariantsOnlyOffBase ==
    Generated =>
        \A i \in 1..Len(input.attrs) :
            (input.attrs[i].path \in VariantsOnlyNames /\ input.attrs[i].path \notin BaseOnlyNames)
                => /\ \A k \in VariantNumbers :
                          Contains(variant_tokens[k].attrs, input.attrs[i])
                   /\ ~Contains(orig_struct.attrs, input.attrs[i])

\* a field of the struct as it is written
WrittenField(f) == CHOOSE fld \in Range(input.fields) : fld.ident = f

\* the attributes of the field that apply to the variant
AttributesApplying(f, variant) ==
    {kind \in {"ctx_required", "ctx_optional", "ctx_never",
               "ctx_always_required", "ctx_always_optional"} :
        CASE kind = "ctx_required" -> Contains(WrittenField(f).ctx_required, variant)
          [] kind = "ctx_optional" -> Contains(WrittenField(f).ctx_optional, variant)
          [] kind = "ctx_never" -> Contains(WrittenField(f).ctx_never, variant)
          [] kind = "ctx_always_required" -> WrittenField(f).ctx_always_required
          [] OTHER -> WrittenField(f).ctx_always_optional}

\* the classification an attribute of a field stands for
FateByAttribute(kind) ==
    CASE kind \in {"ctx_required", "ctx_always_required"} -> "Required"
      [] kind \in {"ctx_optional", "ctx_always_optional"} -> "Optional"
      [] OTHER -> "Exclude"

(***************************************************************************)
(* C25: in a variant declared by its name, a field with one attribute that  *)
(* applies to the variant, ctx_required, ctx_optional or ctx_never naming   *)
(* it or one of the markers ctx_always_required and ctx_always_optional, is *)
(* classified by that attribute, whatever default the struct gives for the  *)
(* variant with ctx_default_required, ctx_default_optional or               *)
(* ctx_default_never.  The generator leaves a field out of a variant of     *)
(* ctx_default_never unless ctx_required or ctx_optional names the variant, *)
(* without a look at the markers: TLC finds this violated.                  *)
(***************************************************************************)
C25_FieldAttributeOverridesDefault ==
    Generated =>
        \A p \in BarePositions(args) : \A f \in DeclaredFields :
            \A kind \in AttributesApplying(f, args[p].name) :
                AttributesApplying(f, args[p].name) = {kind}
                    => Fate(ContextNumber(args, p), f) = FateByAttribute(kind)

(***************************************************************************)
(* C26: a default(...) call of a chain sets the default of its context      *)
(* wherever it stands, as the first call, in the middle or as the last:     *)
(* the parsed context holds its behaviour, the fields no list matches are   *)
(* classified by it, and the context gets no coverage diagnostic.  The      *)
(* parser keeps only the three lists of the first call of a longer chain,   *)
(* so a default(...) that opens it is lost: TLC finds this violated.        *)
(***************************************************************************)
C26_DefaultAnywhereInChain ==
    Validated =>
        \A p \in ChainPositions(args) :
            SourceDefault(args[p].chain) # None
                => /\ ParsedDefault(p) = SourceDefault(args[p].chain)
                   /\ Recorded("missing", p) = {}
                   /\ Generated =>
                          \A f \in Unmatched(args, p) :
                              Fate(ContextNumber(args, p), f) = SourceDefault(args[p].chain)

\* the variant names the rule source declares
DeclaredVariants == {args[p].name : p \in ContextPositions(args)}

\* the variant names of the struct-level defaults that are not declared
UndeclaredDefaults ==
    (Range(input.ctx_default_required) \cup Range(input.ctx_default_optional)
        \cup Range(input.ctx_default_never)) \ DeclaredVariants

(***************************************************************************)
(* C27: a struct-level ctx_default_required, ctx_default_optional or        *)
(* ctx_default_never that names a variant the rule source does not declare  *)
(* makes the expansion fail, as an undeclared name in a field-level         *)
(* attribute does.  The names of the struct-level attributes are checked    *)
(* before they are read from the struct: TLC finds this violated.           *)
(***************************************************************************)
C27_UnknownDefaultVariantFails ==
    (pc = "done" /\ UndeclaredDefaults # {}) => output.kind # "tokens"

\* the reference is a literal that names a group
IsGroupRef(field_ref, field_groups) ==
    field_ref.t = "Field" /\ MapHas(field_groups, field_ref.name)

\* the number of references that stand for the reference after the expansion
WidthOf(field_ref, field_groups) ==
    IF IsGroupRef(field_ref, field_groups)
    THEN Len(MapGet(field_groups, field_ref.name))
    ELSE 1

RECURSIVE PlaceOf(_, _, _)
\* the number of references that stand before the i-th reference of the
\* list after the expansion
PlaceOf(field_refs, i, field_groups) ==
    IF i = 1 THEN 0
    ELSE PlaceOf(field_refs, i - 1, field_groups) + WidthOf(field_refs[i - 1], field_groups)

\* after is the list before with every group reference replaced, at its
\* place, by the members of the group in their declared order, and every
\* other reference kept at its place
OnlyGroupsRewritten(before, after, field_groups) ==
    /\ Len(after) = PlaceOf(before, Len(before) + 1, field_groups)
    /\ \A i \in 1..Len(before) :
           IF IsGroupRef(before[i], field_groups)
           THEN \A j \in 1..Len(MapGet(field_groups, before[i].name)) :
                    after[PlaceOf(before, i, field_groups) + j]
                        = Field(MapGet(field_groups, before[i].name)[j])
           ELSE after[PlaceOf(before, i, field_groups) + 1] = before[i]

\* the step of the group expansion
ExpansionStep == pc = "expand_field_groups" /\ pc' = "validate_fluent_contexts"

(***************************************************************************)
(* C28: the group expansion rewrites only the group references of the       *)
(* lists.  In each of the three lists of each context a wildcard and a      *)
(* literal that names no group stay as they are and where they are, and a   *)
(* literal that names a group is replaced, at its place, by the members of  *)
(* the group in their declared order, a member that names a group itself    *)
(* not being expanded again; the name and the default of every context, the *)
(* number of contexts and the groups are unchanged.                         *)
(***************************************************************************)
C28_ExpansionRewritesOnlyGroups ==
    [][ExpansionStep =>
          /\ Len(variants_cfg'.fluent_contexts) = Len(variants_cfg.fluent_contexts)
          /\ variants_cfg'.field_groups = variants_cfg.field_groups
          /\ variants_cfg'.variants = variants_cfg.variants
          /\ variants_cfg'.global_default = variants_cfg.global_default
          /\ \A k \in 1..Len(variants_cfg.fluent_contexts) :
                 /\ variants_cfg'.fluent_contexts[k].name = variants_cfg.fluent_contexts[k].name
                 /\ variants_cfg'.fluent_contexts[k].default_behavior
                        = variants_cfg.fluent_contexts[k].default_behavior
                 /\ \A m \in ListMethods :
                        OnlyGroupsRewritten(ListOf(variants_cfg.fluent_contexts[k], m),
                                            ListOf(variants_cfg'.fluent_contexts[k], m),
                                            variants_cfg.field_groups)]_vars

\* requires(auth, all_fields().except(token), name) with auth = (user_id,
\* contact) and contact = (name): the members of auth first, contact kept as
\* a literal, the wildcard and name after them
C28_Witness ==
    /\ pc = "validate_fluent_contexts"
    /\ ctx_index = 0
    /\ Len(args) = 2
    /\ args[1] = NameValueItem("groups", NestedGroups)
    /\ args[2].k = "FluentContext"
    /\ args[2].chain = <<Call("requires",
                              <<EPath("auth"),
                                EMethod("call", "all_fields", "except", <<"token">>),
                                EPath("name")>>),
                         Call("default", <<EPath("exclude")>>)>>
    /\ variants_cfg.fluent_contexts[1].required_fields
           = <<Field("user_id"), Field("contact"), AllFields(<<"token">>), Field("name")>>
    /\ variants_cfg.fluent_contexts[1].default_behavior = "Exclude"

\* the classification a list stands for
FateByList(m) ==
    CASE m = "requires" -> "Required"
      [] m = "optional" -> "Optional"
      [] OTHER -> "Exclude"

\* the context at position p has no default(...), the rule source no global
\* default, and the validator has recorded nothing for the context
CleanWithoutDefault(p) ==
    /\ SourceDefault(args[p].chain) = None
    /\ SourceGlobalDefault(args) = None
    /\ \A i \in 1..Len(emitted) : emitted[i].span # p

(***************************************************************************)
(* C29: the validator and the classifier agree.  For every context of the   *)
(* rule source, with a chain or a bare name, that has no default(...) while *)
(* there is no global default, and for which the validator has recorded no  *)
(* diagnostic, every declared field is matched by exactly one of the three  *)
(* lists of the context, and in the generated variant the field has the     *)
(* classification of that list.  A bare name is never validated, so it has  *)
(* no diagnostic and no list matches its fields: TLC finds this violated.   *)
(***************************************************************************)
C29_ValidatorAgreesWithClassifier ==
    Validated =>
        \A p \in ContextPositions(args) :
            CleanWithoutDefault(p) =>
                \A f \in DeclaredFields :
                    /\ Cardinality(ListsMatching(args, args[p].chain, f)) = 1
                    /\ Generated =>
                           \A m \in ListsMatching(args, args[p].chain, f) :
                               Fate(ContextNumber(args, p), f) = FateByList(m)

\* the positions of the rule source that hold a directive, and the position p
OwnPositions(src, p) == {q \in 1..Len(src) : q = p \/ src[q].k = "NameValue"}

\* the rule source without its other contexts: the directives and the
\* context at position p, in the order written
WithoutOthers(src, p) ==
    [i \in 1..Cardinality(OwnPositions(src, p)) |->
        src[CHOOSE q \in OwnPositions(src, p) :
                Cardinality({r \in OwnPositions(src, p) : r <= q}) = i]]

\* the fate of a field in the k-th of the given tables
FateIn(tables, k, f) ==
    IF \A i \in 1..Len(tables[k].fields) : tables[k].fields[i].ident # f
    THEN "Exclude"
    ELSE IF \E i \in 1..Len(tables[k].fields) :
                /\ tables[k].fields[i].ident = f
                /\ tables[k].fields[i].required_here
    THEN "Required"
    ELSE "Optional"

====
